---------------------------- MODULE Spec2Model ----------------------------
(***************************************************************************)
(* A model of the 17peppertree booking backend: the rate administration    *)
(* handlers and the rate calculation (rate_routes.py), the booking         *)
(* handlers (app.py, admin_routes.py, secure_api_routes.py,                *)
(* ical_routes.py), the availability query (app.py) and the admin gate     *)
(* (auth.py).                                                              *)
(*                                                                         *)
(* Every handler is one action: a request is handled by one worker from    *)
(* its first line to its response, with one commit.  Where requests are    *)
(* taken to run at the same time (SpecRateRace, SpecKeyRace) a request is  *)
(* a thread of steps instead.  A handler that                              *)
(* returns an error before its commit leaves the tables as they were: the  *)
(* session's uncommitted assignments are discarded when the request ends.  *)
(*                                                                         *)
(* Dates are proleptic Gregorian ordinals, as date.toordinal() gives them; *)
(* an ISO date string is the triple <<year, month, day>>.  Amounts are     *)
(* whole currency units.  Free-text columns (description, names, notes)    *)
(* and timestamps take part in no decision and are left out.               *)
(***************************************************************************)
EXTENDS Integers, Sequences, FiniteSets, TLC

VARIABLES
    rates,          \* the rates table: a sequence of rows, row i has id i
    bookings,       \* the booking_requests table: row i has id i
    keycloak_keys,  \* KeycloakAuth._public_keys: the key ids cached (auth.py)
    secure_keys,    \* SecureAuth._public_keys (secure_auth.py)
    response,       \* the response to the last request handled
    threads,        \* the requests in flight where requests interleave:
                    \* each one's position and local variables
    schema,         \* how the database was set up: by the application's
                    \* start alone (db.create_all) or with run_migrations
    waiter,         \* init_db.py: the position and the locals of
                    \* wait_for_db, and what it has done so far
    session,        \* the Flask session of one browser (oauth_state), and
                    \* how many states the login step has generated
    sent,           \* the HTTP requests the backend has sent out, in order
    client,         \* SecureApiClient: _access_token, _token_expires_at
                    \* (0 for None) and the holder of _token_lock (0: free)
    now             \* datetime.utcnow(), in seconds

\* the state of the HTTP side
http == <<session, sent, client, now>>

\* the variables outside the tables, the key caches and the requests
rest == <<schema, waiter, http>>

vars ==
    <<rates, bookings, keycloak_keys, secure_keys, response, threads, rest>>

(***************************************************************************)
(* Bounds of the model.                                                    *)
(***************************************************************************)
MaxRates == 2
MaxCalcRates == 3
MaxBookings == 1

(***************************************************************************)
(* Calendar arithmetic (datetime.date).                                    *)
(***************************************************************************)
IsLeap(y) == (y % 4 = 0 /\ y % 100 # 0) \/ y % 400 = 0

DaysInMonth(y, m) ==
    IF m = 2 THEN (IF IsLeap(y) THEN 29 ELSE 28)
    ELSE IF m \in {4, 6, 9, 11} THEN 30 ELSE 31

DaysBeforeYear(y) ==
    LET p == y - 1 IN p * 365 + (p \div 4) - (p \div 100) + (p \div 400)

RECURSIVE DaysBeforeMonth(_, _)
DaysBeforeMonth(y, m) ==
    IF m = 1 THEN 0 ELSE DaysBeforeMonth(y, m - 1) + DaysInMonth(y, m - 1)

\* date(y, m, d).toordinal()
Ordinal(y, m, d) == DaysBeforeYear(y) + DaysBeforeMonth(y, m) + d

\* the years the model's dates fall in
Years == {2024, 2025}

\* whether the ISO string names a calendar date (otherwise ValueError)
IsIsoDate(s) ==
    /\ s[1] \in Years
    /\ s[2] \in 1..12
    /\ s[3] \in 1..DaysInMonth(s[1], s[2])

\* datetime.fromisoformat(s).date() / datetime.strptime(s, '%Y-%m-%d').date()
ParseDate(s) == Ordinal(s[1], s[2], s[3])

\* date.isoformat(): the ISO string of an ordinal
IsoFormat(n) ==
    LET y == CHOOSE yy \in Years :
                 DaysBeforeYear(yy) < n /\ n <= DaysBeforeYear(yy + 1)
        m == CHOOSE mm \in 1..12 :
                 /\ DaysBeforeYear(y) + DaysBeforeMonth(y, mm) < n
                 /\ n <= DaysBeforeYear(y) + DaysBeforeMonth(y, mm)
                         + DaysInMonth(y, mm)
    IN  <<y, m, n - DaysBeforeYear(y) - DaysBeforeMonth(y, m)>>

\* a NULL date column
NoDate == 0

\* dict.get / "key in data"
Has(data, k) == k \in DOMAIN data
Get(data, k, default) == IF k \in DOMAIN data THEN data[k] ELSE default


(***************************************************************************)
(* The rates table (database.py, class Rate).                              *)
(***************************************************************************)
\* Rate.query.filter_by(rate_type='base', guests=g, is_active=True)
ActiveBase(table, g) ==
    {i \in 1..Len(table) : /\ table[i].rate_type = "base"
                            /\ table[i].guests = g
                            /\ table[i].is_active}

\* the rows of the overlap query of create_rate and update_rate: the active
\* special rates of the guest count, other than row `other`, whose inclusive
\* range meets [s, e]
OverlappingSpecial(table, g, other, s, e) ==
    {i \in 1..Len(table) : /\ table[i].rate_type = "special"
                            /\ table[i].guests = g
                            /\ table[i].is_active
                            /\ i # other
                            /\ table[i].start_date <= e
                            /\ table[i].end_date >= s}

\* a request body's date field is present and not empty (data.get(k))
Truthy(data, k) == Has(data, k) /\ data[k] # <<>>

(***************************************************************************)
(* create_rate: POST /api/admin/rates/                                     *)
(***************************************************************************)
\* the id the overlap query of create_rate leaves out: data.get('id', 0)
CreateExcludedId(data) == Get(data, "id", 0)

\* the status create_rate answers with: 400 for each validation error, for
\* an overlap and for a date that does not parse (ValueError), else 201
CreateRateStatus(table, data) ==
    IF ~(Has(data, "rate_type") /\ Has(data, "guests") /\ Has(data, "amount"))
    THEN 400
    ELSE IF data.rate_type \notin {"base", "special"} THEN 400
    ELSE IF data.guests \notin {1, 2} THEN 400
    ELSE IF data.amount <= 0 THEN 400
    ELSE IF data.rate_type = "special"
            /\ ~(Has(data, "start_date") /\ Has(data, "end_date")) THEN 400
    ELSE IF data.rate_type = "special"
            /\ ~(IsIsoDate(data.start_date) /\ IsIsoDate(data.end_date)) THEN 400
    ELSE IF data.rate_type = "special"
            /\ ParseDate(data.end_date) < ParseDate(data.start_date) THEN 400
    ELSE IF data.rate_type = "special"
            /\ OverlappingSpecial(table, data.guests, CreateExcludedId(data),
                                  ParseDate(data.start_date),
                                  ParseDate(data.end_date)) # {} THEN 400
    ELSE IF \E k \in {"start_date", "end_date"} :
                Truthy(data, k) /\ ~IsIsoDate(data[k]) THEN 400
    ELSE 201

\* the row create_rate inserts
NewRate(data, id) ==
    [id         |-> id,
     rate_type  |-> data.rate_type,
     guests     |-> data.guests,
     amount     |-> data.amount,
     start_date |-> IF Truthy(data, "start_date")
                    THEN ParseDate(data.start_date) ELSE NoDate,
     end_date   |-> IF Truthy(data, "end_date")
                    THEN ParseDate(data.end_date) ELSE NoDate,
     is_active  |-> Get(data, "is_active", TRUE)]

\* the rows existing_base may be: the first row of an unordered query, or
\* none (0) when the query is empty or the new rate is not a base rate
ExistingBase(table, data) ==
    IF data.rate_type = "base" /\ ActiveBase(table, data.guests) # {}
    THEN ActiveBase(table, data.guests) ELSE {0}

\* existing_base.is_active = False
Deactivate(table, i) ==
    IF i = 0 THEN table ELSE [table EXCEPT ![i].is_active = FALSE]

CreateRate(data) ==
    /\ UNCHANGED <<bookings, keycloak_keys, secure_keys, threads, rest>>
    /\ IF CreateRateStatus(rates, data) = 201
       THEN /\ \E existing \in ExistingBase(rates, data) :
                     rates' = Append(Deactivate(rates, existing),
                                     NewRate(data, Len(rates) + 1))
            /\ response' = [op |-> "create_rate", status |-> 201]
       ELSE /\ UNCHANGED rates
            /\ response' = [op |-> "create_rate",
                            status |-> CreateRateStatus(rates, data)]

(***************************************************************************)
(* update_rate: PUT /api/admin/rates/<rate_id>                             *)
(***************************************************************************)
\* the row after the handler's assignments (amount, is_active, dates)
UpdatedRate(rate, data) ==
    LET a == IF Has(data, "amount") THEN [rate EXCEPT !.amount = data.amount]
             ELSE rate
        b == IF Has(data, "is_active")
             THEN [a EXCEPT !.is_active = data.is_active] ELSE a
        c == IF rate.rate_type = "special" /\ Has(data, "start_date")
             THEN [b EXCEPT !.start_date = ParseDate(data.start_date)] ELSE b
    IN  IF rate.rate_type = "special" /\ Has(data, "end_date")
        THEN [c EXCEPT !.end_date = ParseDate(data.end_date)] ELSE c

\* whether update_rate answers a special rate's update with the overlap error
UpdateOverlapRejected(table, rate_id, data) ==
    LET rate == UpdatedRate(table[rate_id], data)
    IN  /\ OverlappingSpecial(table, rate.guests, rate_id,
                              rate.start_date, rate.end_date) # {}
        /\ Get(data, "is_active", rate.is_active)

UpdateRateStatus(table, rate_id, data) ==
    IF rate_id \notin 1..Len(table) THEN 404
    ELSE IF Has(data, "amount") /\ data.amount <= 0 THEN 400
    ELSE IF table[rate_id].rate_type = "special"
            /\ \E k \in {"start_date", "end_date"} :
                   Has(data, k) /\ ~IsIsoDate(data[k]) THEN 400
    ELSE IF table[rate_id].rate_type = "special"
            /\ UpdatedRate(table[rate_id], data).end_date
                   < UpdatedRate(table[rate_id], data).start_date THEN 400
    ELSE IF table[rate_id].rate_type = "special"
            /\ UpdateOverlapRejected(table, rate_id, data) THEN 400
    ELSE 200

\* the row in the request's session when the handler answers: the
\* assignments it made before it returned (none after the amount error) or
\* before fromisoformat raised
SessionRate(rate, data) ==
    LET a == IF Has(data, "amount") THEN [rate EXCEPT !.amount = data.amount]
             ELSE rate
        b == IF Has(data, "is_active")
             THEN [a EXCEPT !.is_active = data.is_active] ELSE a
        c == IF Has(data, "start_date")
             THEN [b EXCEPT !.start_date = ParseDate(data.start_date)] ELSE b
    IN  IF Has(data, "amount") /\ data.amount <= 0 THEN rate
        ELSE IF rate.rate_type # "special" THEN b
        ELSE IF Has(data, "start_date") /\ ~IsIsoDate(data.start_date) THEN b
        ELSE IF ~Has(data, "end_date") \/ ~IsIsoDate(data.end_date) THEN c
        ELSE [c EXCEPT !.end_date = ParseDate(data.end_date)]

\* the table a session that is never rolled back would leave behind
StoredAfterUpdateKeepsSession(table, rate_id, data) ==
    IF rate_id \notin 1..Len(table) THEN table
    ELSE [table EXCEPT ![rate_id] = SessionRate(table[rate_id], data)]

\* the rates table after the request: db.session.commit() is reached only
\* by the 200 answer; every other answer returns with the assignments
\* uncommitted in the request's session, which is removed (rolled back) when
\* the request ends
StoredAfterUpdate(table, rate_id, data) ==
    IF UpdateRateStatus(table, rate_id, data) = 200
    THEN [table EXCEPT ![rate_id] = SessionRate(table[rate_id], data)]
    ELSE table

UpdateRate(rate_id, data) ==
    /\ UNCHANGED <<bookings, keycloak_keys, secure_keys, threads, rest>>
    /\ response' = [op |-> "update_rate", rate_id |-> rate_id,
                    status |-> UpdateRateStatus(rates, rate_id, data),
                    assigned |-> /\ rate_id \in 1..Len(rates)
                                 /\ SessionRate(rates[rate_id], data)
                                        # rates[rate_id]]
    /\ rates' = StoredAfterUpdate(rates, rate_id, data)

(***************************************************************************)
(* delete_rate: DELETE /api/admin/rates/<rate_id>                          *)
(***************************************************************************)
\* delete_rate without the guard of the last base rate
DeleteRateStatusUnguarded(table, rate_id) ==
    IF rate_id \notin 1..Len(table) THEN 404 ELSE 200

DeleteRateStatus(table, rate_id) ==
    IF rate_id \notin 1..Len(table) THEN 404
    ELSE IF table[rate_id].rate_type = "base"
            /\ ActiveBase(table, table[rate_id].guests) \ {rate_id} = {} THEN 400
    ELSE 200

DeleteRate(rate_id) ==
    /\ UNCHANGED <<bookings, keycloak_keys, secure_keys, threads, rest>>
    /\ response' = [op |-> "delete_rate", rate_id |-> rate_id,
                    status |-> DeleteRateStatus(rates, rate_id)]
    /\ IF DeleteRateStatus(rates, rate_id) = 200
       THEN rates' = [rates EXCEPT ![rate_id].is_active = FALSE]
       ELSE UNCHANGED rates

(***************************************************************************)
(* calculate_rate: POST /api/admin/rates/calculate                         *)
(***************************************************************************)
\* a mutation of StaySpecials: the guest count left out of the filter
StaySpecialsAnyGuests(table, g, checkin, checkout) ==
    {i \in 1..Len(table) : /\ table[i].rate_type = "special"
                            /\ table[i].is_active
                            /\ table[i].start_date <= checkout
                            /\ table[i].end_date >= checkin}

\* the rows of the special_rates query for a stay
StaySpecials(table, g, checkin, checkout) ==
    {i \in 1..Len(table) : /\ table[i].rate_type = "special"
                            /\ table[i].guests = g
                            /\ table[i].is_active
                            /\ table[i].start_date <= checkout
                            /\ table[i].end_date >= checkin}

\* the orders in which an unordered query may return the rows S
QueryOrders(S) ==
    {q \in [1..Cardinality(S) -> S] :
        \A i, j \in 1..Cardinality(S) : i # j => q[i] # q[j]}

\* a mutation of Covers: the end date taken as exclusive
CoversEndExclusive(rate, current_date) ==
    rate.start_date <= current_date /\ current_date < rate.end_date

\* special.start_date <= current_date <= special.end_date
Covers(rate, current_date) ==
    rate.start_date <= current_date /\ current_date <= rate.end_date

\* the inner loop: the first row of special_rates whose range holds the
\* date, or 0 (applicable_special = None)
RECURSIVE ApplicableSpecial(_, _, _, _)
ApplicableSpecial(table, special_rates, k, current_date) ==
    IF k > Len(special_rates) THEN 0
    ELSE IF Covers(table[special_rates[k]], current_date)
         THEN special_rates[k]
         ELSE ApplicableSpecial(table, special_rates, k + 1, current_date)

\* one entry of nightly_rates
NightEntry(table, special_rates, base_rate, current_date) ==
    LET applicable_special ==
            ApplicableSpecial(table, special_rates, 1, current_date)
    IN  IF applicable_special # 0
        THEN [date      |-> IsoFormat(current_date),
              rate      |-> table[applicable_special].amount,
              rate_type |-> "special"]
        ELSE [date      |-> IsoFormat(current_date),
              rate      |-> table[base_rate].amount,
              rate_type |-> "base"]

\* the loop run through the check-out date as well
RECURSIVE NightlyRatesInclusive(_, _, _, _, _)
NightlyRatesInclusive(table, special_rates, base_rate, current_date, last) ==
    IF current_date <= last
    THEN <<NightEntry(table, special_rates, base_rate, current_date)>>
         \o NightlyRatesInclusive(table, special_rates, base_rate,
                                  current_date + 1, last)
    ELSE <<>>

\* the while loop over the nights of the stay
RECURSIVE NightlyRates(_, _, _, _, _)
NightlyRates(table, special_rates, base_rate, current_date, checkout_date) ==
    IF current_date < checkout_date
    THEN <<NightEntry(table, special_rates, base_rate, current_date)>>
         \o NightlyRates(table, special_rates, base_rate,
                         current_date + 1, checkout_date)
    ELSE <<>>

\* sum(night['rate'] for night in nightly_rates)
RECURSIVE TotalAmount(_)
TotalAmount(nightly_rates) ==
    IF nightly_rates = <<>> THEN 0
    ELSE Head(nightly_rates).rate + TotalAmount(Tail(nightly_rates))

\* the status calculate_rate answers with: 400 for a missing field
\* (KeyError), a guest count outside 1..2 and a stay of no night, 500 for a
\* date that does not parse, 404 without an active base rate
CalculateRateStatus(table, data) ==
    IF ~Has(data, "checkin_date") THEN 400
    ELSE IF ~IsIsoDate(data.checkin_date) THEN 500
    ELSE IF ~Has(data, "checkout_date") THEN 400
    ELSE IF ~IsIsoDate(data.checkout_date) THEN 500
    ELSE IF ~Has(data, "guests") THEN 400
    ELSE IF data.guests < 1 \/ data.guests > 2 THEN 400
    ELSE IF ParseDate(data.checkout_date) <= ParseDate(data.checkin_date) THEN 400
    ELSE IF ActiveBase(table, data.guests) = {} THEN 404
    ELSE 200

\* the body of the 200 response, for the rows the two queries returned
CalculateRateResult(table, data, base_rate, special_rates) ==
    LET checkin_date  == ParseDate(data.checkin_date)
        checkout_date == ParseDate(data.checkout_date)
        nightly_rates == NightlyRates(table, special_rates, base_rate,
                                      checkin_date, checkout_date)
    IN  [op            |-> "calculate_rate",
         status        |-> 200,
         request       |-> data,
         nights        |-> checkout_date - checkin_date,
         guests        |-> data.guests,
         base_rate     |-> table[base_rate].amount,
         nightly_rates |-> nightly_rates,
         total_amount  |-> TotalAmount(nightly_rates)]

CalculateRate(data) ==
    /\ UNCHANGED <<rates, bookings, keycloak_keys, secure_keys, threads, rest>>
    /\ IF CalculateRateStatus(rates, data) = 200
       THEN \E base_rate \in ActiveBase(rates, data.guests) :
            \E special_rates \in QueryOrders(
                    StaySpecials(rates, data.guests,
                                 ParseDate(data.checkin_date),
                                 ParseDate(data.checkout_date))) :
                response' = CalculateRateResult(rates, data, base_rate,
                                                special_rates)
       ELSE response' = [op |-> "calculate_rate",
                         status |-> CalculateRateStatus(rates, data)]

(***************************************************************************)
(* Token verification and the admin gate (auth.py).                        *)
(*                                                                         *)
(* A token is its header's key id ("" when the header has none), the key   *)
(* that signed it, and its claims.  A key cache is the set of key ids it   *)
(* holds: None and the empty dict are both "not self._public_keys".        *)
(***************************************************************************)
\* the issuer both verifiers are configured with: KEYCLOAK_SERVER_URL and
\* KEYCLOAK_REALM
ExpectedIssuer == "http://keycloak:8080/realms/peppertree"

\* the loop over jwks['keys']: the key ids stored before the first key that
\* from_jwk cannot parse, and whether every key parsed
RECURSIVE ParseKeys(_, _, _)
ParseKeys(jwks, k, stored) ==
    IF k > Len(jwks) THEN [ok |-> TRUE, kids |-> stored]
    ELSE IF ~jwks[k].parses THEN [ok |-> FALSE, kids |-> stored]
    ELSE ParseKeys(jwks, k + 1, stored \cup {jwks[k].kid})

\* get_public_keys: what it returns (keys; {} for None) and the cache after
GetPublicKeys(cache, fetch) ==
    IF cache # {} THEN [keys |-> cache, cache |-> cache]
    ELSE IF ~fetch.ok THEN [keys |-> {}, cache |-> cache]
    ELSE LET parsed == ParseKeys(fetch.keys, 1, {})
         IN  IF parsed.ok THEN [keys |-> parsed.kids, cache |-> parsed.kids]
             ELSE [keys |-> {}, cache |-> parsed.kids]

\* jwt.decode(token, key=public_keys[kid], algorithms=['RS256'],
\*            audience="account", issuer=...): signature, expiry, audience
\* and issuer
JwtDecodes(token, issuer) ==
    /\ token.signed_by = token.kid
    /\ ~token.expired
    /\ token.claims.aud = "account"
    /\ token.claims.iss = issuer

\* verify_token that goes on to jwt.decode whatever the key lookup gives
VerifyTokenWithoutKeyLookup(token, public_keys) ==
    JwtDecodes(token, ExpectedIssuer)

\* KeycloakAuth.verify_token: whether the token is decoded (not None)
VerifyToken(token, public_keys) ==
    /\ token.kid # ""
    /\ public_keys # {} /\ token.kid \in public_keys
    /\ JwtDecodes(token, ExpectedIssuer)

\* str.startswith on a name given as its parts
StartsWith(name, prefix) == Len(name) >= 1 /\ name[1] = prefix

NoUser == [email |-> "None", preferred_username |-> <<>>]

\* admin_required that looks at the roles of the unverified token first
AdminRequiredRolesFirst(token, cache, fetch) ==
    IF ~token.bearer THEN [status |-> 401, user |-> NoUser, cache |-> cache]
    ELSE IF /\ "admin" \notin token.claims.roles
            /\ "peppertree-admin" \notin token.claims.roles
         THEN [status |-> 403, user |-> NoUser, cache |-> cache]
    ELSE IF token.kid = ""
         THEN [status |-> 401, user |-> NoUser, cache |-> cache]
    ELSE LET got == GetPublicKeys(cache, fetch) IN
         IF ~VerifyToken(token, got.keys)
         THEN [status |-> 401, user |-> NoUser, cache |-> got.cache]
         ELSE [status |-> 0,
               user |-> [email |-> token.claims.email,
                         preferred_username |->
                             token.claims.preferred_username],
               cache |-> got.cache]

\* admin_required: the status it answers with itself (401, 403), or 0 when
\* it calls the handler; request.user; the key cache after
AdminRequired(token, cache, fetch) ==
    IF ~token.bearer THEN [status |-> 401, user |-> NoUser, cache |-> cache]
    ELSE IF token.kid = ""
         THEN [status |-> 401, user |-> NoUser, cache |-> cache]
    ELSE LET got == GetPublicKeys(cache, fetch) IN
         IF ~VerifyToken(token, got.keys)
         THEN [status |-> 401, user |-> NoUser, cache |-> got.cache]
         ELSE IF /\ "admin" \notin token.claims.roles
                 /\ "peppertree-admin" \notin token.claims.roles
              THEN [status |-> 403, user |-> NoUser, cache |-> got.cache]
              ELSE [status |-> 0,
                    user |-> [email |-> token.claims.email,
                              preferred_username |->
                                  token.claims.preferred_username],
                    cache |-> got.cache]

(***************************************************************************)
(* Client-credentials verification and its gate (secure_auth.py).          *)
(***************************************************************************)
\* SecureAuth.verify_client_credentials_token
VerifyClientCredentialsToken(token, public_keys) ==
    /\ token.kid # ""
    /\ public_keys # {} /\ token.kid \in public_keys
    /\ JwtDecodes(token, ExpectedIssuer)
    /\ token.claims.typ = "Bearer"
    /\ StartsWith(token.claims.preferred_username, "service-account-")

\* client_credentials_required
ClientCredentialsRequired(token, cache, fetch) ==
    IF ~token.bearer THEN [status |-> 401, cache |-> cache]
    ELSE IF token.kid = "" THEN [status |-> 401, cache |-> cache]
    ELSE LET got == GetPublicKeys(cache, fetch) IN
         IF ~VerifyClientCredentialsToken(token, got.keys)
         THEN [status |-> 401, cache |-> got.cache]
         ELSE [status |-> 0, cache |-> got.cache]

(***************************************************************************)
(* User-token verification and the user-or-client gate (secure_auth.py).   *)
(* KEYCLOAK_SERVER_URL is taken to be http://keycloak:8080 for SecureAuth  *)
(* as for KeycloakAuth.                                                    *)
(***************************************************************************)
\* allowed_issuers of verify_user_token
AllowedIssuers ==
    {"http://keycloak:8080/realms/peppertree",
     "http://localhost:8080/realms/peppertree",
     "http://192.168.1.222:8080/realms/peppertree",
     "http://127.0.0.1:8080/realms/peppertree"}

\* jwt.decode(..., audience="account", options={"verify_iss": False})
JwtDecodesAnyIssuer(token) ==
    /\ token.signed_by = token.kid
    /\ ~token.expired
    /\ token.claims.aud = "account"

\* verify_user_token without its check of preferred_username
VerifyUserTokenAnyName(token, public_keys) ==
    /\ token.kid # ""
    /\ public_keys # {} /\ token.kid \in public_keys
    /\ JwtDecodesAnyIssuer(token)
    /\ token.claims.iss \in AllowedIssuers

\* SecureAuth.verify_user_token: whether the token is decoded (not None)
VerifyUserToken(token, public_keys) ==
    /\ token.kid # ""
    /\ public_keys # {} /\ token.kid \in public_keys
    /\ JwtDecodesAnyIssuer(token)
    /\ token.claims.iss \in AllowedIssuers
    /\ ~StartsWith(token.claims.preferred_username, "service-account-")

\* a verification function (named by verify) called on a token: the
\* header's kid is looked at before get_public_keys is called; the key set
\* get_public_keys returned ({} for None), whether the token is accepted,
\* the cache after
VerifyCall(verify, token, cache, fetch) ==
    IF token.kid = ""
    THEN [accepted |-> FALSE, fetched |-> FALSE, keys |-> {}, cache |-> cache]
    ELSE LET got == GetPublicKeys(cache, fetch) IN
         [accepted |->
              CASE verify = "verify_token" -> VerifyToken(token, got.keys)
                [] verify = "verify_user_token"
                       -> VerifyUserToken(token, got.keys)
                [] verify = "verify_client_credentials_token"
                       -> VerifyClientCredentialsToken(token, got.keys),
          fetched |-> TRUE, keys |-> got.keys, cache |-> got.cache]

\* request.client = None
NoClient == [is_none |-> TRUE, client_id |-> "None"]

\* request.client of the client-credentials paths: a dict, whose client_id
\* is the token's azp (None without one)
ClientOf(token) ==
    [is_none |-> FALSE, client_id |-> Get(token.claims, "azp", "None")]

\* request.user of the gates
UserOf(token) ==
    [email |-> token.claims.email,
     preferred_username |-> token.claims.preferred_username]

\* user_or_client_required that leaves request.user set on the client path
UserOrClientRequiredKeepsUser(token, cache, fetch1, fetch2) ==
    IF ~token.bearer
    THEN [status |-> 401, auth_type |-> "None", client |-> NoClient,
          user |-> NoUser, client_ok |-> FALSE, user_tried |-> FALSE,
          user_ok |-> FALSE, cache |-> cache]
    ELSE LET c == VerifyCall("verify_client_credentials_token", token, cache,
                             fetch1)
             u == VerifyCall("verify_user_token", token, c.cache, fetch2)
         IN  IF c.accepted
             THEN [status |-> 0, auth_type |-> "client",
                   client |-> ClientOf(token), user |-> UserOf(token),
                   client_ok |-> TRUE, user_tried |-> FALSE,
                   user_ok |-> FALSE, cache |-> c.cache]
             ELSE IF ~u.accepted
             THEN [status |-> 401, auth_type |-> "None", client |-> NoClient,
                   user |-> NoUser, client_ok |-> FALSE, user_tried |-> TRUE,
                   user_ok |-> FALSE, cache |-> u.cache]
             ELSE [status |-> 0, auth_type |-> "user", client |-> NoClient,
                   user |-> UserOf(token), client_ok |-> FALSE,
                   user_tried |-> TRUE, user_ok |-> TRUE, cache |-> u.cache]

\* user_or_client_required: the status it answers with itself (401), or 0
\* when it calls the handler; request.auth_type, request.client and
\* request.user; which verification ran and accepted; the key cache after.
\* Each verification calls get_public_keys (fetch1, fetch2: what the
\* provider answers if asked).
UserOrClientRequired(token, cache, fetch1, fetch2) ==
    IF ~token.bearer
    THEN [status |-> 401, auth_type |-> "None", client |-> NoClient,
          user |-> NoUser, client_ok |-> FALSE, user_tried |-> FALSE,
          user_ok |-> FALSE, cache |-> cache]
    ELSE LET c == VerifyCall("verify_client_credentials_token", token, cache,
                             fetch1)
             u == VerifyCall("verify_user_token", token, c.cache, fetch2)
         IN  IF c.accepted
             THEN [status |-> 0, auth_type |-> "client",
                   client |-> ClientOf(token), user |-> NoUser,
                   client_ok |-> TRUE, user_tried |-> FALSE,
                   user_ok |-> FALSE, cache |-> c.cache]
             ELSE IF ~u.accepted
             THEN [status |-> 401, auth_type |-> "None", client |-> NoClient,
                   user |-> NoUser, client_ok |-> FALSE, user_tried |-> TRUE,
                   user_ok |-> FALSE, cache |-> u.cache]
             ELSE [status |-> 0, auth_type |-> "user", client |-> NoClient,
                   user |-> UserOf(token), client_ok |-> FALSE,
                   user_tried |-> TRUE, user_ok |-> TRUE, cache |-> u.cache]

(***************************************************************************)
(* The booking_requests table (database.py, class BookingRequest) and the  *)
(* handlers that write it.                                                 *)
(***************************************************************************)
NoAmount == 0

\* datetime.now().date() of the requests
Today == Ordinal(2024, 12, 1)

\* BookingRequest(...): the columns the request gives, the others at their
\* defaults
NewBooking(id, checkin, checkout, guests, name, status, payment_status) ==
    [id             |-> id,
     checkin_date   |-> checkin,
     checkout_date  |-> checkout,
     guests         |-> guests,
     guest_name     |-> name,
     status         |-> status,
     payment_status |-> payment_status,
     payment_amount |-> NoAmount,
     status_history |-> <<>>,
     deleted_at     |-> "None",
     deleted_by     |-> "None"]

\* required_fields of create_booking and create_secure_booking
RequiredFields == {"checkin", "checkout", "guests", "name", "email", "phone"}

\* the validation shared by create_booking and create_secure_booking: 400
\* for a required field that is missing (or a guest count of 0), a date that
\* does not parse, a stay of no night, a check-in in the past and a guest
\* count outside 1..2, else 201
CreateBookingStatus(data) ==
    IF \E k \in RequiredFields : ~Has(data, k) THEN 400
    ELSE IF data.guests = 0 THEN 400
    ELSE IF ~(IsIsoDate(data.checkin) /\ IsIsoDate(data.checkout)) THEN 400
    ELSE IF ParseDate(data.checkin) >= ParseDate(data.checkout) THEN 400
    ELSE IF ParseDate(data.checkin) < Today THEN 400
    ELSE IF data.guests < 1 \/ data.guests > 2 THEN 400
    ELSE 201

\* the table after create_booking's insert: status and payment_status take
\* the column defaults
InsertBooking(table, data) ==
    Append(table, NewBooking(Len(table) + 1, ParseDate(data.checkin),
                             ParseDate(data.checkout), data.guests,
                             data.name, "pending", "pending"))

\* create_booking: POST /api/booking (no gate)
CreateBooking(data) ==
    /\ UNCHANGED <<rates, keycloak_keys, secure_keys, threads, rest>>
    /\ response' = [op |-> "create_booking",
                    status |-> CreateBookingStatus(data), user |-> NoUser]
    /\ IF CreateBookingStatus(data) = 201
       THEN bookings' = InsertBooking(bookings, data)
       ELSE UNCHANGED bookings

\* create_secure_booking: POST /api/secure/booking, behind
\* client_credentials_required
CreateSecureBooking(token, fetch, data) ==
    LET gate == ClientCredentialsRequired(token, secure_keys, fetch) IN
    /\ UNCHANGED <<rates, keycloak_keys, threads, rest>>
    /\ secure_keys' = gate.cache
    /\ IF gate.status # 0
       THEN /\ response' = [op |-> "create_secure_booking",
                            status |-> gate.status, user |-> NoUser]
            /\ UNCHANGED bookings
       ELSE /\ response' = [op |-> "create_secure_booking",
                            status |-> CreateBookingStatus(data),
                            user |-> NoUser]
            /\ IF CreateBookingStatus(data) = 201
               THEN bookings' = InsertBooking(bookings, data)
               ELSE UNCHANGED bookings

\* the statuses the public status endpoint accepts (app.py)
PublicStatuses == {"pending", "confirmed", "rejected"}

\* the same endpoint without the check of the status it is given
PublicUpdateStatusCodeUnchecked(table, booking_id, data) ==
    IF booking_id \notin 1..Len(table) THEN 500 ELSE 200

\* update_booking_status of app.py: 400 for a status it does not accept, 500
\* for an unknown booking (get_or_404 raises inside the try), else 200
PublicUpdateStatusCode(table, booking_id, data) ==
    IF Get(data, "status", "None") \notin PublicStatuses THEN 400
    ELSE IF booking_id \notin 1..Len(table) THEN 500
    ELSE 200

\* update_booking_status: PUT /api/booking/<id>/status (no gate)
PublicUpdateStatus(booking_id, data) ==
    /\ UNCHANGED <<rates, keycloak_keys, secure_keys, threads, rest>>
    /\ response' = [op |-> "public_update_status",
                    status |-> PublicUpdateStatusCode(bookings, booking_id, data),
                    user |-> NoUser]
    /\ IF PublicUpdateStatusCode(bookings, booking_id, data) = 200
       THEN bookings' = [bookings EXCEPT ![booking_id].status = data.status]
       ELSE UNCHANGED bookings

\* valid_statuses of the admin status endpoint (admin_routes.py)
AdminStatuses == {"pending", "approved", "rejected", "cancelled", "completed"}

AdminUpdateStatusCode(table, booking_id, data) ==
    IF booking_id \notin 1..Len(table) THEN 404
    ELSE IF Get(data, "status", "None") \notin AdminStatuses THEN 400
    ELSE 200

\* status_history after "if not booking.status_history: ... = []" and the
\* append, as the commit stores it.  The column is a plain db.JSON
\* (database.py), which tracks assignments only: the list assigned to an
\* empty history is written with its entry, an append in place to a loaded
\* history is not part of the UPDATE.
HistoryAppended(status_history, entry) ==
    IF status_history = <<>> THEN <<entry>> ELSE status_history

\* the row after the admin status update
StatusUpdated(booking, data, user) ==
    [booking EXCEPT
        !.status_history =
            HistoryAppended(@, [status     |-> data.status,
                                changed_by |-> user.email]),
        !.status = data.status]

\* what the mail service does when asked: the message is sent, mail.send
\* raises inside send_status_update_email (which then returns False), or
\* building the mail service raises in the handler
MailOutcomes == {"sent", "send_failed", "setup_failed"}

\* if notify_guest and old_status != new_status
NotifyRequested(booking, data) ==
    Get(data, "notify_guest", TRUE) /\ booking.status # data.status

\* a handler that sends the notification before it commits and answers 500,
\* rolled back, when the notification fails
AdminStatusOutcomeMailFatal(booking, data, user, mail) ==
    IF NotifyRequested(booking, data) /\ mail # "sent"
    THEN [row   |-> booking,
          code  |-> 500,
          steps |-> <<[step |-> "mail", outcome |-> mail]>>]
    ELSE [row   |-> StatusUpdated(booking, data, user),
          code  |-> 200,
          steps |-> (IF NotifyRequested(booking, data)
                     THEN <<[step |-> "mail", outcome |-> mail]>> ELSE <<>>)
                    \o <<[step |-> "commit", status |-> data.status]>>]

\* the valid request, in the order of the handler: db.session.commit(), then
\* the notification inside try/except Exception, then the 200 answer; row is
\* the stored row when the handler answers
AdminStatusOutcome(booking, data, user, mail) ==
    [row   |-> StatusUpdated(booking, data, user),
     code  |-> 200,
     steps |-> <<[step |-> "commit", status |-> data.status]>>
               \o (IF NotifyRequested(booking, data)
                   THEN <<[step |-> "mail", outcome |-> mail]>> ELSE <<>>)]

\* update_booking_status: PUT /api/admin/booking/<id>/status
AdminUpdateStatusMail(token, fetch, booking_id, data, mail) ==
    LET gate == AdminRequired(token, keycloak_keys, fetch)
        code == AdminUpdateStatusCode(bookings, booking_id, data) IN
    /\ UNCHANGED <<rates, secure_keys, threads, rest>>
    /\ keycloak_keys' = gate.cache
    /\ IF gate.status # 0
       THEN /\ response' = [op |-> "admin_update_status",
                            status |-> gate.status, user |-> NoUser,
                            booking_id |-> booking_id, steps |-> <<>>]
            /\ UNCHANGED bookings
       ELSE IF code # 200
       THEN /\ response' = [op |-> "admin_update_status", status |-> code,
                            user |-> gate.user,
                            booking_id |-> booking_id, steps |-> <<>>]
            /\ UNCHANGED bookings
       ELSE LET out == AdminStatusOutcome(bookings[booking_id], data,
                                          gate.user, mail) IN
            /\ response' = [op |-> "admin_update_status",
                            status |-> out.code, user |-> gate.user,
                            booking_id |-> booking_id, steps |-> out.steps]
            /\ bookings' = [bookings EXCEPT ![booking_id] = out.row]

\* the same request while the mail service works
AdminUpdateStatus(token, fetch, booking_id, data) ==
    AdminUpdateStatusMail(token, fetch, booking_id, data, "sent")

\* valid_payment_statuses
PaymentStatuses == {"pending", "paid", "partial", "refunded", "cancelled"}

AdminUpdatePaymentCode(table, booking_id, data) ==
    IF booking_id \notin 1..Len(table) THEN 404
    ELSE IF /\ Get(data, "payment_status", "None") # "None"
            /\ data.payment_status \notin PaymentStatuses THEN 400
    ELSE 200

\* the row after the payment update: the fields the body gives, and the
\* history entry
PaymentUpdated(booking, data, user) ==
    [booking EXCEPT
        !.payment_status = Get(data, "payment_status", @),
        !.payment_amount = Get(data, "payment_amount", @),
        !.status_history =
            HistoryAppended(@, [type           |-> "payment_update",
                                payment_status |->
                                    Get(data, "payment_status", "None"),
                                payment_amount |->
                                    Get(data, "payment_amount", NoAmount),
                                changed_by     |-> user.email])]

\* update_payment_status: PUT /api/admin/booking/<id>/payment
AdminUpdatePayment(token, fetch, booking_id, data) ==
    LET gate == AdminRequired(token, keycloak_keys, fetch)
        code == AdminUpdatePaymentCode(bookings, booking_id, data) IN
    /\ UNCHANGED <<rates, secure_keys, threads, rest>>
    /\ keycloak_keys' = gate.cache
    /\ IF gate.status # 0
       THEN /\ response' = [op |-> "admin_update_payment",
                            status |-> gate.status, user |-> NoUser]
            /\ UNCHANGED bookings
       ELSE /\ response' = [op |-> "admin_update_payment", status |-> code,
                            user |-> gate.user]
            /\ IF code = 200
               THEN bookings' = [bookings EXCEPT ![booking_id] =
                                     PaymentUpdated(@, data, gate.user)]
               ELSE UNCHANGED bookings

\* the row after the soft delete
SoftDeleted(booking, user) ==
    [booking EXCEPT !.status = "deleted",
                    !.deleted_at = "utcnow",
                    !.deleted_by = user.email]

\* delete_booking: DELETE /api/admin/booking/<id>
AdminDeleteBooking(token, fetch, booking_id) ==
    LET gate == AdminRequired(token, keycloak_keys, fetch)
        code == IF booking_id \notin 1..Len(bookings) THEN 404 ELSE 200 IN
    /\ UNCHANGED <<rates, secure_keys, threads, rest>>
    /\ keycloak_keys' = gate.cache
    /\ IF gate.status # 0
       THEN /\ response' = [op |-> "admin_delete_booking",
                            status |-> gate.status, user |-> NoUser]
            /\ UNCHANGED bookings
       ELSE /\ response' = [op |-> "admin_delete_booking", status |-> code,
                            user |-> gate.user]
            /\ IF code = 200
               THEN bookings' = [bookings EXCEPT ![booking_id] =
                                     SoftDeleted(@, gate.user)]
               ELSE UNCHANGED bookings

(***************************************************************************)
(* import_ical: POST /api/ical/import (ical_routes.py, no gate).           *)
(***************************************************************************)
\* guest_name LIKE '%platform%', a name being its words
NameLike(name, platform) == \E k \in 1..Len(name) : name[k] = platform

\* the loop over the feed's events: an event whose dates and platform match
\* a stored or just added booking is skipped, every other one is added as a
\* confirmed, paid booking of 2 guests
RECURSIVE ImportEvents(_, _, _, _)
ImportEvents(table, events, k, platform) ==
    IF k > Len(events) THEN table
    ELSE IF \E i \in 1..Len(table) :
                /\ table[i].checkin_date = events[k].dtstart
                /\ table[i].checkout_date = events[k].dtend
                /\ NameLike(table[i].guest_name, platform)
         THEN ImportEvents(table, events, k + 1, platform)
         ELSE ImportEvents(
                  Append(table,
                         NewBooking(Len(table) + 1, events[k].dtstart,
                                    events[k].dtend, 2,
                                    <<platform, events[k].summary>>,
                                    "confirmed", "paid")),
                  events, k + 1, platform)

\* the CHECK constraints add_constraints puts on booking_requests
ChecksHold(booking) ==
    /\ booking.guests >= 1 /\ booking.guests <= 2
    /\ booking.checkout_date > booking.checkin_date
    /\ booking.status \in {"pending", "confirmed", "rejected", "approved",
                           "cancelled", "completed", "deleted"}

\* the databases the application runs on: set up by its own start
\* (db.create_all, no CHECK constraint) or by run_migrations as well
Schemas == {"create_all", "run_migrations"}

\* 400 without ical_url, 500 when the feed cannot be fetched or parsed, and
\* 500 when the database refuses a row the loop added: the INSERT fails at
\* the flush, and the commit at the end raises into the outer except branch
ImportIcalCode(table, data, feed, db_schema) ==
    LET imported == ImportEvents(table, feed.events, 1,
                                 Get(data, "platform", "external"))
    IN  IF ~Has(data, "ical_url") THEN 400
        ELSE IF ~feed.ok THEN 500
        ELSE IF /\ db_schema = "run_migrations"
                /\ \E i \in (Len(table) + 1)..Len(imported) :
                       ~ChecksHold(imported[i]) THEN 500
        ELSE 200

ImportIcal(data, feed) ==
    /\ UNCHANGED <<rates, keycloak_keys, secure_keys, threads, rest>>
    /\ response' = [op |-> "import_ical",
                    status |-> ImportIcalCode(bookings, data, feed, schema),
                    user |-> NoUser]
    /\ IF ImportIcalCode(bookings, data, feed, schema) = 200
       THEN bookings' = ImportEvents(bookings, feed.events, 1,
                                     Get(data, "platform", "external"))
       ELSE UNCHANGED bookings

(***************************************************************************)
(* get_availability: GET /api/availability (app.py).                       *)
(***************************************************************************)
\* the last day of the month: the first day of the next month minus one day
MonthEnd(year, month) ==
    IF month = 12 THEN Ordinal(year + 1, 1, 1) - 1
    ELSE Ordinal(year, month + 1, 1) - 1

Max(a, b) == IF a >= b THEN a ELSE b
Min(a, b) == IF a <= b THEN a ELSE b

\* a query that also selects the bookings still pending
BlockingStatusesWithPending == {"confirmed", "pending"}

\* the statuses the availability query selects
BlockingStatuses == {"confirmed"}

\* the confirmed_bookings query
ConfirmedBookings(table, start_date, end_date) ==
    {i \in 1..Len(table) : /\ table[i].status \in BlockingStatuses
                            /\ table[i].checkin_date <= end_date
                            /\ table[i].checkout_date >= start_date}

\* the dates the loops add to unavailable_dates
UnavailableDates(table, year, month) ==
    LET start_date == Ordinal(year, month, 1)
        end_date   == MonthEnd(year, month)
    IN  UNION {{IsoFormat(d) :
                  d \in Max(table[i].checkin_date, start_date)
                        .. (Min(table[i].checkout_date, end_date + 1) - 1)} :
               i \in ConfirmedBookings(table, start_date, end_date)}

\* 400 when year or month is missing or 0, or month is outside 1..12; 500
\* when datetime(...) raises ValueError, which the except branch catches:
\* datetime takes the years 1..9999, and December asks for the first of
\* January of year + 1
GetAvailabilityCode(args) ==
    IF Get(args, "year", 0) = 0 \/ Get(args, "month", 0) = 0 THEN 400
    ELSE IF args.month < 1 \/ args.month > 12 THEN 400
    ELSE IF args.year < 1 \/ args.year > 9999 THEN 500
    ELSE IF args.month = 12 /\ args.year + 1 > 9999 THEN 500
    ELSE 200

GetAvailability(args) ==
    /\ UNCHANGED <<rates, bookings, keycloak_keys, secure_keys, threads, rest>>
    /\ IF GetAvailabilityCode(args) = 200
       THEN response' = [op |-> "get_availability", status |-> 200,
                         user |-> NoUser, args |-> args,
                         year |-> args.year, month |-> args.month,
                         unavailable_dates |->
                             UnavailableDates(bookings, args.year, args.month)]
       ELSE response' = [op |-> "get_availability",
                         status |-> GetAvailabilityCode(args),
                         user |-> NoUser, args |-> args]

(***************************************************************************)
(* The requests of the rate specifications.                                *)
(***************************************************************************)
Dec20 == <<2024, 12, 20>>
Dec24 == <<2024, 12, 24>>
Dec26 == <<2024, 12, 26>>
Dec27 == <<2024, 12, 27>>
Dec29 == <<2024, 12, 29>>
NotADate == <<2024, 12, 32>>

\* a body with one more field
With(b, k, v) == [x \in DOMAIN b \cup {k} |-> IF x = k THEN v ELSE b[x]]

Base(g, a) == [rate_type |-> "base", guests |-> g, amount |-> a]
Special(g, a, s, e) ==
    [rate_type |-> "special", guests |-> g, amount |-> a,
     start_date |-> s, end_date |-> e]

InvalidCreateBodies ==
    {[rate_type |-> "base", guests |-> 1],
     [rate_type |-> "weekly", guests |-> 1, amount |-> 1000],
     Base(3, 1000), Base(1, 0),
     [rate_type |-> "special", guests |-> 1, amount |-> 1500],
     Special(1, 1500, NotADate, Dec26),
     Special(1, 1500, Dec26, Dec20)}

CreateBodies ==
    {Base(1, 1000), Base(2, 1000),
     With(Base(1, 1000), "is_active", FALSE),
     Special(1, 1500, Dec20, Dec26), Special(1, 1500, Dec24, Dec27),
     Special(1, 1500, Dec27, Dec27), Special(2, 1500, Dec20, Dec26)}
    \cup {With(Special(1, 1500, Dec24, Dec27), "id", i) : i \in 1..MaxRates}
    \cup InvalidCreateBodies

UpdateBodies ==
    {[amount |-> 0], [amount |-> 1200], [is_active |-> TRUE],
     [is_active |-> FALSE], [end_date |-> Dec27], [start_date |-> Dec27],
     [end_date |-> NotADate],
     [amount |-> 1200, is_active |-> TRUE, start_date |-> Dec20,
      end_date |-> Dec24]}

\* the other components before anything has run; the database as the
\* application's start sets it up (app.py: create_tables_and_triggers)
InitHttp ==
    /\ session = [oauth_state |-> 0, generated |-> 0]
    /\ sent = <<>>
    /\ client = [access_token |-> 0, token_expires_at |-> 0, token_lock |-> 0]
    /\ now = 0

InitRest ==
    /\ schema = "create_all"
    /\ waiter = [pc |-> "not_run"]
    /\ InitHttp

InitTables ==
    /\ rates = <<>>
    /\ bookings = <<>>
    /\ keycloak_keys = {}
    /\ secure_keys = {}
    /\ response = [op |-> "none", status |-> 0, user |-> NoUser]
    /\ threads = <<>>
    /\ InitRest

(***************************************************************************)
(* SpecRates: the rate administration.                                     *)
(***************************************************************************)
NextRates ==
    \/ \E data \in CreateBodies : Len(rates) < MaxRates /\ CreateRate(data)
    \/ \E rate_id \in 1..MaxRates, data \in UpdateBodies :
           UpdateRate(rate_id, data)
    \/ \E rate_id \in 1..MaxRates : DeleteRate(rate_id)

SpecRates == InitTables /\ [][NextRates]_vars

(***************************************************************************)
(* SpecRateChanges: every update and delete request over a few stored      *)
(* rates.                                                                  *)
(***************************************************************************)
ChangeCreateBodies ==
    {Base(1, 1000), Base(1, 0),
     Special(1, 1500, Dec20, Dec26), Special(1, 1500, Dec27, Dec27)}

NextRateChanges ==
    \/ \E data \in ChangeCreateBodies :
           Len(rates) < MaxRates /\ CreateRate(data)
    \/ \E rate_id \in 1..MaxRates, data \in UpdateBodies :
           UpdateRate(rate_id, data)
    \/ \E rate_id \in 1..MaxRates : DeleteRate(rate_id)

SpecRateChanges == InitTables /\ [][NextRateChanges]_vars

(***************************************************************************)
(* SpecCalc: the rate calculation over the tables the administration       *)
(* produces.                                                               *)
(***************************************************************************)
CalcCreateBodies ==
    {Base(1, 800), Base(2, 1000),
     Special(2, 1500, Dec20, Dec26), Special(2, 2000, Dec24, Dec27),
     Special(1, 1200, Dec20, Dec26)}
    \cup {With(Special(2, 2000, Dec24, Dec27), "id", i) : i \in 1..MaxCalcRates}

Stay(g, checkin, checkout) ==
    [checkin_date |-> checkin, checkout_date |-> checkout, guests |-> g]

CalcRequests ==
    {Stay(2, Dec24, Dec27), Stay(1, Dec24, Dec27), Stay(2, Dec24, Dec29),
     Stay(2, Dec27, Dec24), Stay(3, Dec24, Dec27), Stay(2, NotADate, Dec27),
     [checkin_date |-> Dec24, checkout_date |-> Dec27]}

NextCalc ==
    \/ \E data \in CalcCreateBodies :
           Len(rates) < MaxCalcRates /\ CreateRate(data)
    \/ \E rate_id \in 1..MaxCalcRates : DeleteRate(rate_id)
    \/ \E data \in CalcRequests : CalculateRate(data)

SpecCalc == InitTables /\ [][NextCalc]_vars

(***************************************************************************)
(* SpecBookings: the booking endpoints, the two gates in front of them and *)
(* the availability query.                                                 *)
(***************************************************************************)
Dec30 == <<2024, 12, 30>>
Jan02 == <<2025, 1, 2>>

\* bearer tokens: what the header carries, the key that signed it, its claims
Token(kid, signed_by, roles, email, preferred_username) ==
    [bearer |-> TRUE, kid |-> kid, signed_by |-> signed_by, expired |-> FALSE,
     claims |-> [aud |-> "account", iss |-> ExpectedIssuer, typ |-> "Bearer",
                 roles |-> roles, email |-> email,
                 preferred_username |-> preferred_username]]

\* a request without an Authorization header
NoToken == [Token("", "", {}, "None", <<>>) EXCEPT !.bearer = FALSE]
AdminToken == Token("k1", "k1", {"admin"}, "admin@peppertree", <<"admin">>)
UserToken == Token("k1", "k1", {"user"}, "guest@example.com", <<"guest">>)
ForgedToken ==
    Token("k1", "attacker", {"admin"}, "admin@peppertree", <<"admin">>)
\* the token of a service account that was given the admin realm role
ServiceAdminToken ==
    Token("k1", "k1", {"admin"}, "service@peppertree",
          <<"service-account-", "backend">>)

\* the token of a service account without a realm role
ServiceToken ==
    Token("k1", "k1", {}, "None", <<"service-account-", "backend">>)

Tokens == {NoToken, AdminToken, UserToken, ForgedToken, ServiceAdminToken}

\* the answers of the JWKS endpoint: the realm's key, or no answer
Fetches ==
    {[ok |-> TRUE, keys |-> <<[kid |-> "k1", parses |-> TRUE]>>],
     [ok |-> FALSE, keys |-> <<>>]}

BookingBody(checkin, checkout, guests) ==
    [checkin |-> checkin, checkout |-> checkout, guests |-> guests,
     name |-> <<"Jane">>, email |-> "guest@example.com",
     phone |-> "0821234567"]

BookingBodies ==
    {BookingBody(Dec24, Dec27, 2),
     BookingBody(Dec27, Dec24, 2),
     BookingBody(Dec24, Dec27, 3),
     BookingBody(NotADate, Dec27, 2),
     BookingBody(<<2024, 11, 30>>, Dec27, 1),
     [checkin |-> Dec24, checkout |-> Dec27, guests |-> 2,
      name |-> <<"Jane">>, email |-> "guest@example.com"]}

PublicStatusBodies ==
    {[status |-> "confirmed"], [status |-> "rejected"],
     [status |-> "archived"]}

AdminStatusBodies ==
    {[status |-> "approved"], [status |-> "archived"],
     [notify_guest |-> FALSE]}

PaymentBodies ==
    {[payment_status |-> "paid", payment_amount |-> 4000],
     [payment_status |-> "free"]}

\* a feed of one event that runs over the end of the year, and a feed that
\* cannot be fetched
Feeds ==
    {[ok |-> TRUE,
      events |-> <<[dtstart |-> ParseDate(Dec30), dtend |-> ParseDate(Jan02),
                    summary |-> "Reserved"]>>],
     [ok |-> FALSE, events |-> <<>>]}

ImportBodies == {[ical_url |-> "https://airbnb/ical", platform |-> "airbnb"],
                 [platform |-> "airbnb"]}

AvailabilityArgs ==
    {[year |-> 2024, month |-> 12], [year |-> 2025, month |-> 1],
     [year |-> 2025, month |-> 2], [year |-> 2024, month |-> 13],
     [year |-> 2024], [year |-> 9999, month |-> 11],
     [year |-> 9999, month |-> 12]}

NextBookings ==
    \/ \E data \in BookingBodies :
           Len(bookings) < MaxBookings /\ CreateBooking(data)
    \/ \E token \in Tokens \cup {ServiceToken}, fetch \in Fetches,
          data \in BookingBodies :
           Len(bookings) < MaxBookings
               /\ CreateSecureBooking(token, fetch, data)
    \/ \E data \in ImportBodies, feed \in Feeds :
           Len(bookings) + Len(feed.events) <= MaxBookings
               /\ ImportIcal(data, feed)
    \/ \E booking_id \in 1..MaxBookings, data \in PublicStatusBodies :
           PublicUpdateStatus(booking_id, data)
    \/ \E token \in Tokens, fetch \in Fetches, booking_id \in 1..MaxBookings,
          data \in AdminStatusBodies :
           AdminUpdateStatus(token, fetch, booking_id, data)
    \/ \E token \in Tokens, fetch \in Fetches, booking_id \in 1..MaxBookings :
           AdminDeleteBooking(token, fetch, booking_id)

SpecBookings == InitTables /\ [][NextBookings]_vars

(***************************************************************************)
(* SpecAudit: the requests that change a stored booking, with the payment  *)
(* update.                                                                 *)
(***************************************************************************)
AuditTokens == {NoToken, AdminToken}

NextAudit ==
    \/ \E data \in BookingBodies :
           Len(bookings) < MaxBookings /\ CreateBooking(data)
    \/ \E booking_id \in 1..MaxBookings, data \in PublicStatusBodies :
           PublicUpdateStatus(booking_id, data)
    \/ \E token \in AuditTokens, fetch \in Fetches,
          booking_id \in 1..MaxBookings, data \in AdminStatusBodies :
           AdminUpdateStatus(token, fetch, booking_id, data)
    \/ \E token \in AuditTokens, fetch \in Fetches,
          booking_id \in 1..MaxBookings, data \in PaymentBodies :
           AdminUpdatePayment(token, fetch, booking_id, data)
    \/ \E token \in AuditTokens, fetch \in Fetches,
          booking_id \in 1..MaxBookings :
           AdminDeleteBooking(token, fetch, booking_id)

SpecAudit == InitTables /\ [][NextAudit]_vars

(***************************************************************************)
(* SpecAvail: the availability query over the bookings the endpoints       *)
(* store.                                                                  *)
(***************************************************************************)
AvailStatusBodies ==
    AdminStatusBodies \cup {[status |-> "cancelled"], [status |-> "completed"]}

NextAvail ==
    \/ \E data \in BookingBodies \cup {BookingBody(Dec27, Dec30, 1)} :
           Len(bookings) < MaxBookings /\ CreateBooking(data)
    \/ \E data \in ImportBodies, feed \in Feeds :
           Len(bookings) + Len(feed.events) <= MaxBookings
               /\ ImportIcal(data, feed)
    \/ \E booking_id \in 1..MaxBookings, data \in PublicStatusBodies :
           PublicUpdateStatus(booking_id, data)
    \/ \E token \in AuditTokens, fetch \in Fetches,
          booking_id \in 1..MaxBookings, data \in AvailStatusBodies :
           AdminUpdateStatus(token, fetch, booking_id, data)
    \/ \E token \in AuditTokens, fetch \in Fetches,
          booking_id \in 1..MaxBookings :
           AdminDeleteBooking(token, fetch, booking_id)
    \/ \E args \in AvailabilityArgs : GetAvailability(args)

SpecAvail == InitTables /\ [][NextAvail]_vars

(***************************************************************************)
(* SpecImport: the three paths that store a booking, on a database with    *)
(* and without the CHECK constraints.                                      *)
(***************************************************************************)
Dec28 == <<2024, 12, 28>>

\* feeds whose event ends on the day it starts or before it starts, alone
\* and before a well-formed event
ImportFeeds ==
    LET good     == [dtstart |-> ParseDate(Dec30), dtend |-> ParseDate(Jan02),
                     summary |-> "Reserved"]
        same_day == [dtstart |-> ParseDate(Dec27), dtend |-> ParseDate(Dec27),
                     summary |-> "Blocked"]
        reversed == [dtstart |-> ParseDate(Dec28), dtend |-> ParseDate(Dec27),
                     summary |-> "Blocked"]
    IN  Feeds \cup {[ok |-> TRUE, events |-> <<same_day>>],
                    [ok |-> TRUE, events |-> <<reversed>>],
                    [ok |-> TRUE, events |-> <<same_day, good>>]}

InitImport ==
    /\ rates = <<>>
    /\ bookings = <<>>
    /\ keycloak_keys = {}
    /\ secure_keys = {}
    /\ response = [op |-> "none", status |-> 0, user |-> NoUser]
    /\ threads = <<>>
    /\ schema \in Schemas
    /\ waiter = [pc |-> "not_run"]
    /\ InitHttp

NextImport ==
    \/ \E data \in BookingBodies \cup {BookingBody(Dec27, Dec30, 1)} :
           Len(bookings) < MaxBookings /\ CreateBooking(data)
    \/ \E booking_id \in 1..MaxBookings, data \in PublicStatusBodies :
           PublicUpdateStatus(booking_id, data)
    \/ \E token \in {NoToken, ServiceToken}, fetch \in Fetches,
          data \in BookingBodies :
           Len(bookings) < MaxBookings
               /\ CreateSecureBooking(token, fetch, data)
    \/ \E data \in ImportBodies, feed \in ImportFeeds :
           Len(bookings) + Len(feed.events) <= MaxBookings
               /\ ImportIcal(data, feed)

SpecImport == InitImport /\ [][NextImport]_vars

(***************************************************************************)
(* SpecWaitForDb: init_db.py run as a script.  wait_for_db is a loop of    *)
(* connection attempts; the script then runs the migrations or exits.      *)
(***************************************************************************)
max_retries == 30

\* while retry_count < max_retries
LoopContinues(retry_count) == retry_count < max_retries

\* an except branch that returns to the loop without time.sleep(2)
FailedWithoutSleep(w) ==
    [w EXCEPT !.pc = "loop", !.retry_count = @ + 1, !.attempts = @ + 1]

\* the except branch up to time.sleep(2)
Failed(w) ==
    [w EXCEPT !.pc = "sleep", !.retry_count = @ + 1, !.attempts = @ + 1]

\* one pass of the try block: psycopg2.connect(...) and conn.close() either
\* succeed, and wait_for_db returns True, or raise
Attempt(connects) ==
    /\ waiter.pc = "loop"
    /\ LoopContinues(waiter.retry_count)
    /\ waiter' = IF connects
                 THEN [waiter EXCEPT !.pc = "returned", !.result = TRUE,
                                     !.attempts = @ + 1]
                 ELSE Failed(waiter)
    /\ UNCHANGED <<rates, bookings, keycloak_keys, secure_keys, response,
                   threads, schema, http>>

\* time.sleep(2) after a failed attempt
Sleep ==
    /\ waiter.pc = "sleep"
    /\ waiter' = [waiter EXCEPT !.pc = "loop", !.sleeps = @ + 1]
    /\ UNCHANGED <<rates, bookings, keycloak_keys, secure_keys, response,
                   threads, schema, http>>

\* the loop ends: return False
GiveUp ==
    /\ waiter.pc = "loop"
    /\ ~LoopContinues(waiter.retry_count)
    /\ waiter' = [waiter EXCEPT !.pc = "returned", !.result = FALSE]
    /\ UNCHANGED <<rates, bookings, keycloak_keys, secure_keys, response,
                   threads, schema, http>>

\* if wait_for_db(): init_database(), which runs the migrations
InitDatabase ==
    /\ waiter.pc = "returned" /\ waiter.result
    /\ waiter' = [waiter EXCEPT !.pc = "initialized"]
    /\ schema' = "run_migrations"
    /\ UNCHANGED <<rates, bookings, keycloak_keys, secure_keys, response,
                   threads, http>>

\* else: sys.exit(1)
Exit ==
    /\ waiter.pc = "returned" /\ ~waiter.result
    /\ waiter' = [waiter EXCEPT !.pc = "exited"]
    /\ UNCHANGED <<rates, bookings, keycloak_keys, secure_keys, response,
                   threads, schema, http>>

InitWaitForDb ==
    /\ rates = <<>>
    /\ bookings = <<>>
    /\ keycloak_keys = {}
    /\ secure_keys = {}
    /\ response = [op |-> "none", status |-> 0, user |-> NoUser]
    /\ threads = <<>>
    /\ schema = "create_all"
    /\ waiter = [pc |-> "loop", retry_count |-> 0, attempts |-> 0,
                 sleeps |-> 0, result |-> FALSE]
    /\ InitHttp

NextWaitForDb ==
    \/ \E connects \in BOOLEAN : Attempt(connects)
    \/ Sleep
    \/ GiveUp
    \/ InitDatabase
    \/ Exit

\* the script's process keeps running until it ends
SpecWaitForDb ==
    InitWaitForDb /\ [][NextWaitForDb]_vars /\ WF_vars(NextWaitForDb)

(***************************************************************************)
(* SpecOAuth: the login step and the callback of the OAuth2 flow, for one  *)
(* browser session.  A state is the number of the login step that made it: *)
(* secrets.token_urlsafe(32) gives a new string at every call.             *)
(***************************************************************************)
MaxLogins == 2
MaxSent == 4

Codes == {"code_a", "code_b"}

CallbackBodies ==
    {[code |-> c, state |-> st] : c \in Codes, st \in 1..MaxLogins}
        \cup {[state |-> 1], [code |-> "code_a"],
              [code |-> "", state |-> 1], [code |-> "code_a", state |-> 0]}

NetworkOutcomes == {"ok", "failed"}

\* auth_login: a new state, stored in the session
AuthLogin ==
    /\ session.generated < MaxLogins
    /\ session' = [oauth_state |-> session.generated + 1,
                   generated |-> session.generated + 1]
    /\ response' = [op |-> "auth_login", status |-> 200,
                    state |-> session.generated + 1]
    /\ UNCHANGED <<rates, bookings, keycloak_keys, secure_keys, threads,
                   schema, waiter, sent, client, now>>

\* session.pop('oauth_state', None), left out
SessionAfterCallbackKept(sess) == sess

\* session.pop('oauth_state', None)
SessionAfterCallback(sess) == [sess EXCEPT !.oauth_state = 0]

\* the requests of exchange_code_for_token and of get_user_info
ExchangeRequest(code) ==
    [to |-> "token_url", grant_type |-> "authorization_code", code |-> code]

UserInfoRequest == [to |-> "userinfo_url", grant_type |-> "", code |-> ""]

\* auth_callback: the error of the response ("" with the tokens), the
\* requests sent to Keycloak and the session afterwards
CallbackOutcome(sess, data, exchange, user_info) ==
    LET code == Get(data, "code", "")
        state == Get(data, "state", 0)
    IN  IF code = "" \/ state = 0
        THEN [status |-> 400, error |-> "Missing code or state parameter",
              requests |-> <<>>, session |-> sess]
        ELSE IF state # sess.oauth_state
        THEN [status |-> 400, error |-> "Invalid state parameter",
              requests |-> <<>>, session |-> sess]
        ELSE IF exchange # "ok"
        THEN [status |-> 400, error |-> "Failed to exchange code for token",
              requests |-> <<ExchangeRequest(code)>>, session |-> sess]
        ELSE IF user_info # "ok"
        THEN [status |-> 400, error |-> "Failed to get user info",
              requests |-> <<ExchangeRequest(code), UserInfoRequest>>,
              session |-> sess]
        ELSE [status |-> 200, error |-> "",
              requests |-> <<ExchangeRequest(code), UserInfoRequest>>,
              session |-> SessionAfterCallback(sess)]

AuthCallback(data, exchange, user_info) ==
    LET out == CallbackOutcome(session, data, exchange, user_info)
    IN  /\ Len(sent) + Len(out.requests) <= MaxSent
        /\ session' = out.session
        /\ sent' = sent \o out.requests
        /\ response' = [op |-> "auth_callback", status |-> out.status,
                        error |-> out.error, data |-> data]
        /\ UNCHANGED <<rates, bookings, keycloak_keys, secure_keys, threads,
                       schema, waiter, client, now>>

NextOAuth ==
    \/ AuthLogin
    \/ \E data \in CallbackBodies, exchange, user_info \in NetworkOutcomes :
           AuthCallback(data, exchange, user_info)

SpecOAuth == InitTables /\ [][NextOAuth]_vars

(***************************************************************************)
(* SpecToken and SpecRequest: threads that share one SecureApiClient.      *)
(* A thread of SpecToken calls get_access_token once; a thread of          *)
(* SpecRequest calls make_authenticated_request once.  get_access_token is *)
(* two steps: the thread takes _token_lock and looks at the cached token,  *)
(* and, when it does not return the cached token, it posts to the token    *)
(* endpoint and stores the answer, still holding the lock.  A token is the *)
(* number of the token request that was answered with it.                  *)
(***************************************************************************)
MaxCallers == 2
MaxClock == 300
MaxClientSent == 6
TickSeconds == 60

\* the state outside the client, its callers and the clock
backend ==
    <<rates, bookings, keycloak_keys, secure_keys, response, schema, waiter,
      session>>

\* token_data: Keycloak's answer, with or without expires_in
ExpiresIn == {60, 61, 300}

TokenData ==
    {[access_token |-> "new", expires_in |-> e] : e \in ExpiresIn}
        \cup {[access_token |-> "new"]}

\* the status codes of the target's answers; 0: requests raises
TargetReplies == {200, 401, 500, 0}

ClientIdle ==
    [pc |-> "idle", site |-> "", access_token |-> 0, expires_in |-> 0,
     sends |-> 0, first |-> 0, status |-> 0]

TokenRequest(t) ==
    [to |-> "token_url", grant_type |-> "client_credentials", by |-> t]

TargetRequest(t, access_token) ==
    [to |-> "target", access_token |-> access_token, by |-> t]

TokenRequests(log) == {i \in 1..Len(log) : log[i].to = "token_url"}

TargetRequests(log, t) ==
    {i \in 1..Len(log) : log[i].to = "target" /\ log[i].by = t}

\* _token_lock is taken whoever holds it
LockIgnored(c) == TRUE

\* with self._token_lock: the thread goes on when no thread holds the lock
LockFree(c) == c.token_lock = 0

\* if self._access_token and self._token_expires_at:
\*     if datetime.utcnow() < (self._token_expires_at - timedelta(seconds=60)):
CachedFresh(c, utcnow) ==
    /\ c.access_token # 0
    /\ c.token_expires_at # 0
    /\ utcnow < c.token_expires_at - 60

\* where a thread goes on when get_access_token returns
Continue(site) == IF site = "caller" THEN "returned" ELSE site

\* a thread calls get_access_token
Call(t) ==
    /\ threads[t].pc = "idle"
    /\ threads' = [threads EXCEPT ![t] =
                       [ClientIdle EXCEPT !.pc = "enter", !.site = "caller"]]
    /\ UNCHANGED <<backend, sent, client, now>>

\* with self._token_lock: the cached token is returned, or the lock is kept
\* for the token request
Enter(t) ==
    /\ threads[t].pc = "enter"
    /\ LockFree(client)
    /\ IF CachedFresh(client, now)
       THEN /\ threads' = [threads EXCEPT
                               ![t].pc = Continue(threads[t].site),
                               ![t].access_token = client.access_token]
            /\ UNCHANGED client
       ELSE /\ threads' = [threads EXCEPT ![t].pc = "post"]
            /\ client' = [client EXCEPT !.token_lock = t]
    /\ UNCHANGED <<backend, sent, now>>

\* requests.post(self.token_url, ...) and what follows it
Post(t, ok, token_data) ==
    /\ threads[t].pc = "post"
    /\ sent' = Append(sent, TokenRequest(t))
    /\ IF ok
       THEN LET access_token == Cardinality(TokenRequests(sent'))
                expires_in == Get(token_data, "expires_in", 300)
            IN  /\ client' = [access_token |-> access_token,
                              token_expires_at |-> now + expires_in,
                              token_lock |-> 0]
                /\ threads' = [threads EXCEPT
                                   ![t].pc = Continue(threads[t].site),
                                   ![t].access_token = access_token,
                                   ![t].expires_in = expires_in]
       ELSE /\ client' = [client EXCEPT !.token_lock = 0]
            /\ threads' = [threads EXCEPT ![t].pc = "raised"]
    /\ UNCHANGED <<backend, now>>

\* a thread calls make_authenticated_request
Request(t) ==
    /\ threads[t].pc = "idle"
    /\ threads' = [threads EXCEPT ![t] =
                       [ClientIdle EXCEPT !.pc = "enter", !.site = "send1"]]
    /\ UNCHANGED <<backend, sent, client, now>>

\* every 401 is answered with a new token and another request
AfterSendRetriesAgain(pc, reply) ==
    IF reply = 0 THEN "raised"
    ELSE IF reply = 401 THEN "clear"
    ELSE "returned"

\* where the thread is after requests.request(method, url, **kwargs)
AfterSend(pc, reply) ==
    IF reply = 0 THEN "raised"
    ELSE IF pc = "send1" /\ reply = 401 THEN "clear"
    ELSE "returned"

\* response = requests.request(method, url, **kwargs), the first or the
\* second time
Send(t, reply) ==
    /\ threads[t].pc \in {"send1", "send2"}
    /\ sent' = Append(sent, TargetRequest(t, threads[t].access_token))
    /\ threads' = [threads EXCEPT
           ![t].pc = AfterSend(threads[t].pc, reply),
           ![t].sends = threads[t].sends + 1,
           ![t].first = IF threads[t].pc = "send1" THEN reply
                        ELSE threads[t].first,
           ![t].status = IF AfterSend(threads[t].pc, reply) = "returned"
                         THEN reply ELSE 0]
    /\ UNCHANGED <<backend, client, now>>

\* with self._token_lock: the cached token is cleared; then
\* get_access_token is called again
Clear(t) ==
    /\ threads[t].pc = "clear"
    /\ LockFree(client)
    /\ client' = [access_token |-> 0, token_expires_at |-> 0, token_lock |-> 0]
    /\ threads' = [threads EXCEPT ![t].pc = "enter", ![t].site = "send2"]
    /\ UNCHANGED <<backend, sent, now>>

\* time passes
Tick ==
    /\ now + TickSeconds <= MaxClock
    /\ now' = now + TickSeconds
    /\ UNCHANGED <<backend, threads, sent, client>>

InitClient ==
    /\ rates = <<>>
    /\ bookings = <<>>
    /\ keycloak_keys = {}
    /\ secure_keys = {}
    /\ response = [op |-> "none", status |-> 0]
    /\ threads = [t \in 1..MaxCallers |-> ClientIdle]
    /\ InitRest

NextToken ==
    \/ \E t \in 1..MaxCallers : Call(t)
    \/ \E t \in 1..MaxCallers : Enter(t)
    \/ \E t \in 1..MaxCallers, ok \in BOOLEAN, token_data \in TokenData :
           Post(t, ok, token_data)
    \/ Tick

SpecToken == InitClient /\ [][NextToken]_vars

\* a token that is served from the cache and one that never is
RequestTokenData ==
    {[access_token |-> "new"], [access_token |-> "new", expires_in |-> 60]}

NextRequest ==
    \/ \E t \in 1..MaxCallers : Request(t)
    \/ \E t \in 1..MaxCallers : Enter(t)
    \/ \E t \in 1..MaxCallers, ok \in BOOLEAN, token_data \in RequestTokenData :
           Len(sent) < MaxClientSent /\ Post(t, ok, token_data)
    \/ \E t \in 1..MaxCallers, reply \in TargetReplies :
           Len(sent) < MaxClientSent /\ Send(t, reply)
    \/ \E t \in 1..MaxCallers : Clear(t)

SpecRequest == InitClient /\ [][NextRequest]_vars

(***************************************************************************)
(* SpecNotify: admin status updates while the mail service works or fails. *)
(***************************************************************************)
NotifyStatusBodies ==
    {[status |-> "approved"], [status |-> "rejected"],
     [status |-> "pending"], [status |-> "archived"],
     [status |-> "cancelled", notify_guest |-> FALSE]}

NextNotify ==
    \/ \E data \in BookingBodies :
           Len(bookings) < MaxBookings /\ CreateBooking(data)
    \/ \E booking_id \in 1..MaxBookings, data \in PublicStatusBodies :
           PublicUpdateStatus(booking_id, data)
    \/ \E token \in AuditTokens, fetch \in Fetches,
          booking_id \in 1..MaxBookings, data \in NotifyStatusBodies,
          mail \in MailOutcomes :
           AdminUpdateStatusMail(token, fetch, booking_id, data, mail)

SpecNotify == InitTables /\ [][NextNotify]_vars

(***************************************************************************)
(* SpecRateRace: create_rate requests for base rates that run at the same  *)
(* time, each in its own database transaction (READ COMMITTED, the         *)
(* PostgreSQL default: a query sees the rows committed before it runs).    *)
(* A request is three steps: it arrives with its body, it validates and    *)
(* runs the existing_base query, and it commits the deactivation of the    *)
(* row it found together with its insert.                                  *)
(***************************************************************************)
MaxRequests == 2
MaxRaceRates == 3

RaceBodies == {Base(1, 1000), Base(1, 1200), Base(2, 1000), Base(3, 1000)}

Idle == [pc |-> "idle"]

\* request.get_json(): a worker takes a request
CreateRateArrive(t, data) ==
    /\ threads[t].pc \in {"idle", "done"}
    /\ threads' = [threads EXCEPT ![t] = [pc |-> "find", data |-> data]]
    /\ UNCHANGED <<rates, bookings, keycloak_keys, secure_keys, response, rest>>

\* the validation and the existing_base query, on the committed rows
CreateRateFind(t) ==
    /\ threads[t].pc = "find"
    /\ UNCHANGED <<rates, bookings, keycloak_keys, secure_keys, rest>>
    /\ IF CreateRateStatus(rates, threads[t].data) # 201
       THEN /\ threads' = [threads EXCEPT ![t] = [pc |-> "done"]]
            /\ response' = [op |-> "create_rate",
                            status |-> CreateRateStatus(rates, threads[t].data)]
       ELSE /\ \E existing_base \in ExistingBase(rates, threads[t].data) :
                   threads' = [threads EXCEPT ![t] =
                                   [pc |-> "commit", data |-> threads[t].data,
                                    existing_base |-> existing_base]]
            /\ UNCHANGED response

\* db.session.add(new_rate); db.session.commit(): the UPDATE of the row the
\* query found and the INSERT become visible together
CreateRateCommit(t) ==
    /\ threads[t].pc = "commit"
    /\ rates' = Append(Deactivate(rates, threads[t].existing_base),
                       NewRate(threads[t].data, Len(rates) + 1))
    /\ threads' = [threads EXCEPT ![t] = [pc |-> "done"]]
    /\ response' = [op |-> "create_rate", status |-> 201]
    /\ UNCHANGED <<bookings, keycloak_keys, secure_keys, rest>>

InitRateRace ==
    /\ rates = <<>>
    /\ bookings = <<>>
    /\ keycloak_keys = {}
    /\ secure_keys = {}
    /\ response = [op |-> "none", status |-> 0]
    /\ threads = [t \in 1..MaxRequests |-> Idle]
    /\ InitRest

\* the requests taken and not yet committed
InFlight == {t \in 1..MaxRequests : threads[t].pc \in {"find", "commit"}}

NextRateRace ==
    \/ \E t \in 1..MaxRequests, data \in RaceBodies :
           Len(rates) + Cardinality(InFlight) < MaxRaceRates
               /\ CreateRateArrive(t, data)
    \/ \E t \in 1..MaxRequests : CreateRateFind(t)
    \/ \E t \in 1..MaxRequests : CreateRateCommit(t)

SpecRateRace == InitRateRace /\ [][NextRateRace]_vars

(***************************************************************************)
(* SpecKeyRace: threads of one process that verify client-credentials      *)
(* tokens at the same time and share SecureAuth._public_keys.  A thread    *)
(* runs get_public_keys line by line.  secure_keys is the content of the   *)
(* dict the attribute refers to now.  A value get_public_keys returned is  *)
(* a reference: to that dict ("cache"), or to a dict the attribute has     *)
(* been moved away from by a later "self._public_keys = {}", which nobody  *)
(* writes any more ("detached", with the content it was left with).        *)
(***************************************************************************)
MaxThreads == 2

\* the provider's key set, and a provider that does not answer
JwksResponse ==
    [ok |-> TRUE, keys |-> <<[kid |-> "k1", parses |-> TRUE],
                             [kid |-> "k2", parses |-> TRUE]>>]
RaceFetches == {JwksResponse, [ok |-> FALSE, keys |-> <<>>]}

\* the key ids the provider's response contains
ProviderKids == {JwksResponse.keys[k].kid : k \in 1..Len(JwksResponse.keys)}

NoneRef == [kind |-> "None", keys |-> {}]
CacheRef == [kind |-> "cache", keys |-> {}]

\* the content of the dict a reference leads to
Content(ref, cache) == IF ref.kind = "cache" THEN cache ELSE ref.keys

\* verify_client_credentials_token is called with a token of this key id
VerifyArrive(t, kid) ==
    /\ threads[t].pc \in {"idle", "done"}
    /\ threads' = [threads EXCEPT ![t] =
                       [pc |-> "check", kid |-> kid, public_keys |-> NoneRef]]
    /\ UNCHANGED <<rates, bookings, keycloak_keys, secure_keys, response, rest>>

\* get_public_keys: "if not self._public_keys", and the return of a cache
\* that is populated
KeysCheck(t) ==
    /\ threads[t].pc = "check"
    /\ threads' = [threads EXCEPT ![t] =
                       IF secure_keys # {}
                       THEN [@ EXCEPT !.pc = "lookup", !.public_keys = CacheRef]
                       ELSE [@ EXCEPT !.pc = "fetch"]]
    /\ UNCHANGED <<rates, bookings, keycloak_keys, secure_keys, response, rest>>

\* requests.get, raise_for_status, response.json(): the except branch
\* returns None
KeysFetch(t, fetch) ==
    /\ threads[t].pc = "fetch"
    /\ threads' = [threads EXCEPT ![t] =
                       IF fetch.ok
                       THEN [pc |-> "assign", kid |-> @.kid,
                             public_keys |-> NoneRef, jwks |-> fetch.keys,
                             k |-> 1]
                       ELSE [@ EXCEPT !.pc = "lookup"]]
    /\ UNCHANGED <<rates, bookings, keycloak_keys, secure_keys, response, rest>>

\* self._public_keys = {}: the attribute leaves the dict it referred to
KeysAssign(t) ==
    /\ threads[t].pc = "assign"
    /\ secure_keys' = {}
    /\ threads' = [u \in 1..MaxThreads |->
                       IF u = t THEN [threads[u] EXCEPT !.pc = "loop"]
                       ELSE IF threads[u].pc = "lookup"
                               /\ threads[u].public_keys.kind = "cache"
                            THEN [threads[u] EXCEPT !.public_keys =
                                      [kind |-> "detached",
                                       keys |-> secure_keys]]
                            ELSE threads[u]]
    /\ UNCHANGED <<rates, bookings, keycloak_keys, response, rest>>

\* one turn of "for key in jwks['keys']", or the return after the last one
KeysLoop(t) ==
    /\ threads[t].pc = "loop"
    /\ UNCHANGED <<rates, bookings, keycloak_keys, response, rest>>
    /\ IF threads[t].k > Len(threads[t].jwks)
       THEN /\ threads' = [threads EXCEPT ![t] =
                               [pc |-> "lookup", kid |-> @.kid,
                                public_keys |-> CacheRef]]
            /\ UNCHANGED secure_keys
       ELSE IF ~threads[t].jwks[threads[t].k].parses
       THEN /\ threads' = [threads EXCEPT ![t] =
                               [pc |-> "lookup", kid |-> @.kid,
                                public_keys |-> NoneRef]]
            /\ UNCHANGED secure_keys
       ELSE /\ secure_keys' =
                   secure_keys \cup {threads[t].jwks[threads[t].k].kid}
            /\ threads' = [threads EXCEPT ![t].k = @ + 1]

\* "if not public_keys or kid not in public_keys": the key set the
\* verification uses, and whether the token's key is found in it
KeysLookup(t) ==
    /\ threads[t].pc = "lookup"
    /\ threads' = [threads EXCEPT ![t] =
                       [pc |-> "done", kid |-> @.kid,
                        returned_none |-> @.public_keys.kind = "None",
                        received |-> Content(@.public_keys, secure_keys),
                        key_found |->
                            @.kid \in Content(@.public_keys, secure_keys)]]
    /\ UNCHANGED <<rates, bookings, keycloak_keys, secure_keys, response, rest>>

InitKeyRace ==
    /\ rates = <<>>
    /\ bookings = <<>>
    /\ keycloak_keys = {}
    /\ secure_keys = {}
    /\ response = [op |-> "none", status |-> 0]
    /\ threads = [t \in 1..MaxThreads |-> Idle]
    /\ InitRest

NextKeyRace ==
    \/ \E t \in 1..MaxThreads, kid \in ProviderKids : VerifyArrive(t, kid)
    \/ \E t \in 1..MaxThreads : KeysCheck(t)
    \/ \E t \in 1..MaxThreads, fetch \in RaceFetches : KeysFetch(t, fetch)
    \/ \E t \in 1..MaxThreads : KeysAssign(t)
    \/ \E t \in 1..MaxThreads : KeysLoop(t)
    \/ \E t \in 1..MaxThreads : KeysLookup(t)

SpecKeyRace == InitKeyRace /\ [][NextKeyRace]_vars

(***************************************************************************)
(* SpecVerify: the key fetch, the three verification functions and the     *)
(* gates in front of two read-only routes, called one after the other.     *)
(***************************************************************************)
\* a service account's token as the provider issues it (with azp)
ClientToken == [ServiceToken EXCEPT !.claims = With(@, "azp", "backend")]
\* a token without a kid in its header
KidlessToken == [AdminToken EXCEPT !.kid = ""]
\* a token signed with a key the provider's key set does not hold
UnknownKeyToken ==
    Token("k9", "k9", {"admin"}, "admin@peppertree", <<"admin">>)
ExpiredToken == [AdminToken EXCEPT !.expired = TRUE]
WrongAudienceToken == [UserToken EXCEPT !.claims.aud = "other"]
\* tokens the provider issued under another of its host names, and a token
\* of another issuer
LocalhostToken ==
    [UserToken EXCEPT !.claims.iss = "http://localhost:8080/realms/peppertree"]
LocalhostClientToken ==
    [ClientToken EXCEPT
         !.claims.iss = "http://localhost:8080/realms/peppertree"]
ForeignToken == [UserToken EXCEPT !.claims.iss = "http://evil/realms/x"]
\* tokens without preferred_username, without realm_access
NamelessToken == Token("k1", "k1", {"user"}, "guest@example.com", <<>>)
RolelessToken == Token("k1", "k1", {}, "guest@example.com", <<"guest">>)
RealmAdminToken ==
    Token("k1", "k1", {"peppertree-admin"}, "owner@peppertree", <<"owner">>)
NotBearerClientToken == [ClientToken EXCEPT !.claims.typ = "ID"]

VerifyTokens ==
    {NoToken, AdminToken, UserToken, ForgedToken, ServiceAdminToken,
     ClientToken, KidlessToken, UnknownKeyToken, ExpiredToken,
     WrongAudienceToken, LocalhostToken, LocalhostClientToken, ForeignToken,
     NamelessToken, RolelessToken, RealmAdminToken, NotBearerClientToken}

\* the provider's answers: its key, a key set whose second key from_jwk
\* cannot parse, a key set whose first key it cannot parse, no answer
VerifyFetches ==
    {[ok |-> TRUE, keys |-> <<[kid |-> "k1", parses |-> TRUE]>>],
     [ok |-> TRUE, keys |-> <<[kid |-> "k1", parses |-> TRUE],
                              [kid |-> "k2", parses |-> FALSE]>>],
     [ok |-> TRUE, keys |-> <<[kid |-> "k2", parses |-> FALSE],
                              [kid |-> "k1", parses |-> TRUE]>>],
     [ok |-> FALSE, keys |-> <<>>]}

\* keycloak_auth.get_public_keys()
KeycloakGetPublicKeys(fetch) ==
    LET got == GetPublicKeys(keycloak_keys, fetch) IN
    /\ keycloak_keys' = got.cache
    /\ response' = [op |-> "get_public_keys", auth |-> "keycloak",
                    keys |-> got.keys]
    /\ UNCHANGED <<rates, bookings, secure_keys, threads, rest>>

\* secure_auth.get_public_keys()
SecureGetPublicKeys(fetch) ==
    LET got == GetPublicKeys(secure_keys, fetch) IN
    /\ secure_keys' = got.cache
    /\ response' = [op |-> "get_public_keys", auth |-> "secure",
                    keys |-> got.keys]
    /\ UNCHANGED <<rates, bookings, keycloak_keys, threads, rest>>

\* what a verification call leaves to look at
Verified(op, token, call) ==
    [op |-> op, token |-> token, accepted |-> call.accepted,
     fetched |-> call.fetched, keys |-> call.keys]

\* keycloak_auth.verify_token(token)
VerifyTokenRequest(token, fetch) ==
    LET call == VerifyCall("verify_token", token, keycloak_keys, fetch) IN
    /\ keycloak_keys' = call.cache
    /\ response' = Verified("verify_token", token, call)
    /\ UNCHANGED <<rates, bookings, secure_keys, threads, rest>>

\* secure_auth.verify_user_token(token)
VerifyUserTokenRequest(token, fetch) ==
    LET call == VerifyCall("verify_user_token", token, secure_keys, fetch) IN
    /\ secure_keys' = call.cache
    /\ response' = Verified("verify_user_token", token, call)
    /\ UNCHANGED <<rates, bookings, keycloak_keys, threads, rest>>

\* secure_auth.verify_client_credentials_token(token)
VerifyClientCredentialsTokenRequest(token, fetch) ==
    LET call == VerifyCall("verify_client_credentials_token", token, secure_keys,
                           fetch) IN
    /\ secure_keys' = call.cache
    /\ response' = Verified("verify_client_credentials_token", token, call)
    /\ UNCHANGED <<rates, bookings, keycloak_keys, threads, rest>>

\* get_secure_bookings: GET /api/secure/bookings behind
\* user_or_client_required; the handler reads and answers 200
GetSecureBookings(token, fetch1, fetch2) ==
    LET gate == UserOrClientRequired(token, secure_keys, fetch1, fetch2) IN
    /\ secure_keys' = gate.cache
    /\ response' = [op |-> "get_secure_bookings", token |-> token,
                    status |-> IF gate.status = 0 THEN 200 ELSE gate.status,
                    handler_calls |-> IF gate.status = 0 THEN 1 ELSE 0,
                    auth_type |-> gate.auth_type, client |-> gate.client,
                    user |-> gate.user, client_ok |-> gate.client_ok,
                    user_tried |-> gate.user_tried, user_ok |-> gate.user_ok]
    /\ UNCHANGED <<rates, bookings, keycloak_keys, threads, rest>>

\* get_all_bookings: GET /api/admin/bookings behind admin_required; the
\* handler reads and answers 200
GetAllBookings(token, fetch) ==
    LET gate == AdminRequired(token, keycloak_keys, fetch) IN
    /\ keycloak_keys' = gate.cache
    /\ response' = [op |-> "get_all_bookings", token |-> token,
                    keys |-> GetPublicKeys(keycloak_keys, fetch).keys,
                    status |-> IF gate.status = 0 THEN 200 ELSE gate.status,
                    handler_calls |-> IF gate.status = 0 THEN 1 ELSE 0,
                    user |-> gate.user]
    /\ UNCHANGED <<rates, bookings, secure_keys, threads, rest>>

NextVerify ==
    \/ \E fetch \in VerifyFetches : KeycloakGetPublicKeys(fetch)
    \/ \E fetch \in VerifyFetches : SecureGetPublicKeys(fetch)
    \/ \E token \in VerifyTokens, fetch \in VerifyFetches :
           VerifyTokenRequest(token, fetch)
    \/ \E token \in VerifyTokens, fetch \in VerifyFetches :
           VerifyUserTokenRequest(token, fetch)
    \/ \E token \in VerifyTokens, fetch \in VerifyFetches :
           VerifyClientCredentialsTokenRequest(token, fetch)
    \/ \E token \in VerifyTokens, fetch1 \in VerifyFetches,
          fetch2 \in VerifyFetches :
           GetSecureBookings(token, fetch1, fetch2)
    \/ \E token \in VerifyTokens, fetch \in VerifyFetches :
           GetAllBookings(token, fetch)

SpecVerify == InitTables /\ [][NextVerify]_vars

(***************************************************************************)
(* Claims on the rate administration (SpecRates).                          *)
(***************************************************************************)
\* the active special rates of a guest count
ActiveSpecial(table, g) ==
    {i \in 1..Len(table) : /\ table[i].rate_type = "special"
                            /\ table[i].guests = g
                            /\ table[i].is_active}

\* C1: after any sequence of rate requests there is at most one active base
\* rate for each guest count.
C1_AtMostOneActiveBase ==
    \A g \in {1, 2} : Cardinality(ActiveBase(rates, g)) <= 1

\* C2: a guest count that has an active base rate keeps one, whatever rate
\* request is handled next.
C2_ActiveBaseKept ==
    [][\A g \in {1, 2} :
          ActiveBase(rates, g) # {} => ActiveBase(rates', g) # {}]_vars

\* C3: no two active special rates of the same guest count have
\* intersecting inclusive date ranges.
C3_NoOverlappingSpecials ==
    \A g \in {1, 2} : \A i, j \in ActiveSpecial(rates, g) :
        i # j => ~(/\ rates[i].start_date <= rates[j].end_date
                   /\ rates[j].start_date <= rates[i].end_date)

(***************************************************************************)
(* Claims on the rate calculation (SpecCalc).                              *)
(***************************************************************************)
IsCalculation == response.op = "calculate_rate" /\ response.status = 200

\* the amounts of the nightly_rates entries, in order
NightAmounts(nightly_rates) ==
    [k \in 1..Len(nightly_rates) |-> nightly_rates[k].rate]

\* the scenario of C7: the active rates for 2 guests are a base rate of 1000
\* and a special rate of 1500 from 2024-12-20 to 2024-12-26, and the last
\* request asked for the stay 2024-12-24 to 2024-12-27 of 2 guests
ExampleScenario ==
    /\ IsCalculation
    /\ response.request = Stay(2, Dec24, Dec27)
    /\ ActiveBase(rates, 2) # {}
    /\ \A i \in ActiveBase(rates, 2) : rates[i].amount = 1000
    /\ ActiveSpecial(rates, 2) # {}
    /\ \A i \in ActiveSpecial(rates, 2) :
           /\ rates[i].amount = 1500
           /\ rates[i].start_date = ParseDate(Dec20)
           /\ rates[i].end_date = ParseDate(Dec26)

\* C7 as stated: the example stay costs [1500, 1500, 1000], in total 4000.
C7_ExampleAsStated ==
    ExampleScenario =>
        /\ response.nights = 3
        /\ NightAmounts(response.nightly_rates) = <<1500, 1500, 1000>>
        /\ response.total_amount = 4000

\* C7 as amended: the special rate's end date 2024-12-26 is inclusive, so the
\* example stay costs [1500, 1500, 1500], in total 4500, for 3 nights.
C7_ExampleInclusiveEnd ==
    ExampleScenario =>
        /\ response.nights = 3
        /\ NightAmounts(response.nightly_rates) = <<1500, 1500, 1500>>
        /\ \A k \in 1..3 : response.nightly_rates[k].rate_type = "special"
        /\ response.total_amount = 4500

C7_Witness == ExampleScenario

\* the active special rates of the requested guest count that cover the
\* k-th night of the stay of the last response
CoveringNight(k) ==
    {i \in ActiveSpecial(rates, response.guests) :
        /\ rates[i].start_date <= ParseDate(response.request.checkin_date) + k - 1
        /\ ParseDate(response.request.checkin_date) + k - 1 <= rates[i].end_date}

BaseAmounts(g) == {rates[i].amount : i \in ActiveBase(rates, g)}

PassedAdminGate(resp) ==
    /\ resp.op \in {"admin_update_status", "admin_update_payment",
                    "admin_delete_booking"}
    /\ resp.user # NoUser

\* C4: once a booking is stored, every change to its status, its payment
\* fields or its deletion markers is made by a request that passed the
\* admin-only gate.
C4_OnlyAdminsChangeBookings ==
    [][\A i \in 1..Len(bookings) :
           (\/ bookings'[i].status # bookings[i].status
            \/ bookings'[i].payment_status # bookings[i].payment_status
            \/ bookings'[i].payment_amount # bookings[i].payment_amount
            \/ bookings'[i].deleted_at # bookings[i].deleted_at
            \/ bookings'[i].deleted_by # bookings[i].deleted_by)
               => PassedAdminGate(response')]_vars

\* C5: the admin-only gate never lets a request through whose token carries
\* a preferred_username that starts with 'service-account-', whatever its
\* realm roles.
C5_AdminGateRejectsServiceAccounts ==
    PassedAdminGate(response)
        => ~StartsWith(response.user.preferred_username, "service-account-")

\* the status values the specification lists
ListedStatuses ==
    {"pending", "approved", "rejected", "cancelled", "completed", "deleted"}

\* the status values the CHECK constraint of the table admits
AdmittedStatuses == ListedStatuses \cup {"confirmed"}

NightsIn(booking, year, month) ==
    {d \in booking.checkin_date .. (booking.checkout_date - 1) :
        IsoFormat(d)[1] = year /\ IsoFormat(d)[2] = month}

\* C6: an availability answer lists, for every stored booking whose status
\* is confirmed or approved, every night of the booking that falls in the
\* month asked for.
C6_BlockingBookingsUnavailable ==
    [][(response'.op = "get_availability" /\ response'.status = 200)
           => \A i \in 1..Len(bookings) :
                  bookings[i].status \in {"confirmed", "approved"}
                      => \A d \in NightsIn(bookings[i], response'.year,
                                           response'.month) :
                             IsoFormat(d) \in response'.unavailable_dates]_vars

(***************************************************************************)
(* Claim on the audit trail (SpecAudit).                                   *)
(***************************************************************************)
\* a history entry that records the status or the payment status of the row
RecordsNewValue(entry, booking) ==
    \/ Has(entry, "status") /\ entry.status = booking.status
    \/ Has(entry, "payment_status")
           /\ entry.payment_status = booking.payment_status

\* C10: every request that changes the status or the payment status of a
\* stored booking appends exactly one entry to its status history, the entry
\* records the new value and the actor, and no request removes or rewrites
\* an earlier entry.
C10_EveryChangeAppendsOneEntry ==
    [][\A i \in 1..Len(bookings) :
           LET old == bookings[i].status_history
               new == bookings'[i].status_history
           IN  /\ Len(new) >= Len(old)
               /\ SubSeq(new, 1, Len(old)) = old
               /\ (\/ bookings'[i].status # bookings[i].status
                   \/ bookings'[i].payment_status # bookings[i].payment_status)
                      => /\ Len(new) = Len(old) + 1
                         /\ new[Len(new)].changed_by = response'.user.email
                         /\ RecordsNewValue(new[Len(new)], bookings'[i])]_vars

(***************************************************************************)
(* Claim on concurrent create_rate requests (SpecRateRace).                *)
(***************************************************************************)
\* C11: while create_rate requests for active base rates run at the same
\* time, no committed state has two active base rates for a guest count,
\* and a guest count that has an active base rate never comes to have none.
C11_RaceKeepsOneActiveBase ==
    /\ [](\A g \in {1, 2} : Cardinality(ActiveBase(rates, g)) <= 1)
    /\ [][\A g \in {1, 2} : ActiveBase(rates, g) # {}
                                => ActiveBase(rates', g) # {}]_vars

(***************************************************************************)
(* Claim on concurrent get_public_keys calls (SpecKeyRace).                *)
(***************************************************************************)
\* C12: whatever the interleaving of the threads, a key set that
\* get_public_keys returned and a verification looked the token's key up in
\* holds every key id of the provider's response.
C12_NoIncompleteKeySet ==
    \A t \in 1..MaxThreads :
        (threads[t].pc = "done" /\ ~threads[t].returned_none)
            => ProviderKids \subseteq threads[t].received

(***************************************************************************)
(* Claims on the key fetch, the verification functions and the gates       *)
(* (SpecVerify).                                                           *)
(***************************************************************************)
\* the cache get_public_keys of the answered call works on
CacheOf(resp) == IF resp.auth = "keycloak" THEN keycloak_keys ELSE secure_keys

\* C13: a get_public_keys call that returns no keys leaves the key cache
\* unpopulated, so that no partially built key set is cached.
C13_FailedFetchLeavesCacheEmpty ==
    (response.op = "get_public_keys" /\ response.keys = {})
        => CacheOf(response) = {}

ServiceAccount(token) ==
    StartsWith(token.claims.preferred_username, "service-account-")

\* C14: verify_user_token accepts no token whose preferred_username starts
\* with 'service-account-', verify_client_credentials_token accepts no
\* token whose preferred_username does not (or is absent), and no token is
\* accepted by both.
C14_PathsExclusive ==
    /\ (response.op = "verify_user_token" /\ response.accepted)
           => ~ServiceAccount(response.token)
    /\ (response.op = "verify_client_credentials_token" /\ response.accepted)
           => ServiceAccount(response.token)
    /\ \A token \in VerifyTokens :
           ~(/\ VerifyUserToken(token, secure_keys)
             /\ VerifyClientCredentialsToken(token, secure_keys))

\* verify_user_token has refused a service account's token that is good in
\* every other respect: its key was in the key set, its signature, expiry,
\* audience and issuer pass
C14_Witness ==
    /\ response.op = "verify_user_token" /\ ~response.accepted
    /\ ServiceAccount(response.token)
    /\ response.token.kid \in response.keys
    /\ JwtDecodesAnyIssuer(response.token)
    /\ response.token.claims.iss \in AllowedIssuers

VerificationOps ==
    {"verify_token", "verify_user_token", "verify_client_credentials_token"}

\* C15: each of the three verification functions refuses a token whose
\* header has no kid (without asking for the keys) and a token whose kid
\* is not in the key set get_public_keys returned, an empty or unfetched
\* key set included, whoever signed it.
C15_UnknownKeyRejected ==
    response.op \in VerificationOps
        => /\ response.token.kid = ""
                  => ~response.accepted /\ ~response.fetched
           /\ response.token.kid \notin response.keys => ~response.accepted

\* verify_token has refused a token that is correctly signed with a key the
\* fetched key set does not hold
C15_Witness ==
    /\ response.op = "verify_token" /\ ~response.accepted
    /\ response.keys # {} /\ response.token.kid \notin response.keys
    /\ response.token.kid # ""
    /\ JwtDecodes(response.token, ExpectedIssuer)

\* C16: behind user_or_client_required the handler runs only with exactly
\* one identity attached, the client's when the client-credentials
\* verification accepted (the user verification is then not tried), the
\* user's when it refused and the user verification accepted, auth_type
\* naming the attached one; when both refuse the answer is 401 and the
\* handler does not run.
C16_ExactlyOneIdentity ==
    response.op = "get_secure_bookings"
        => IF response.status = 200
           THEN /\ response.handler_calls = 1
                /\ \/ /\ response.auth_type = "client"
                      /\ response.client # NoClient /\ response.user = NoUser
                      /\ response.client_ok /\ ~response.user_tried
                   \/ /\ response.auth_type = "user"
                      /\ response.user # NoUser /\ response.client = NoClient
                      /\ ~response.client_ok
                      /\ response.user_tried /\ response.user_ok
           ELSE /\ response.status = 401 /\ response.handler_calls = 0
                /\ ~response.client_ok /\ ~response.user_ok

\* the gate fell back to the user verification and let the request in
C16_Witness ==
    /\ response.op = "get_secure_bookings" /\ response.status = 200
    /\ response.auth_type = "user" /\ response.user_tried

\* C17: admin_required answers 401 without a bearer header, else 401 for a
\* token that fails verification, else 403 for roles without 'admin' and
\* 'peppertree-admin', each time without calling the handler; in every
\* other case the handler is called once with the token's user attached.
C17_AdminGateOrder ==
    response.op = "get_all_bookings"
        => LET t == response.token
               verified == /\ t.kid # "" /\ t.kid \in response.keys
                           /\ JwtDecodes(t, ExpectedIssuer)
           IN  IF ~t.bearer \/ ~verified
               THEN response.status = 401 /\ response.handler_calls = 0
               ELSE IF t.claims.roles \cap {"admin", "peppertree-admin"} = {}
               THEN response.status = 403 /\ response.handler_calls = 0
               ELSE /\ response.status = 200 /\ response.handler_calls = 1
                    /\ response.user = UserOf(t)

\* a token that fails verification and carries no admin role has been
\* answered 401
C17_Witness ==
    /\ response.op = "get_all_bookings" /\ response.status = 401
    /\ response.token.bearer
    /\ response.token.claims.roles \cap {"admin", "peppertree-admin"} = {}

(***************************************************************************)
(* Claims on the dates of an availability answer (SpecAvail).  A request   *)
(* that changes the bookings table also replaces response, so an           *)
(* availability answer in response is always the answer for the current    *)
(* table.                                                                  *)
(***************************************************************************)
\* the days of a calendar month
DaysOf(year, month) ==
    Ordinal(year, month, 1) .. (Ordinal(year, month, 1)
                                    + DaysInMonth(year, month) - 1)

\* the dates d of the month with checkin <= d < checkout for a booking of
\* status confirmed
ConfirmedNights(table, year, month) ==
    {IsoFormat(d) :
        d \in {e \in DaysOf(year, month) :
                  \E i \in 1..Len(table) :
                      /\ table[i].status = "confirmed"
                      /\ table[i].checkin_date <= e
                      /\ e < table[i].checkout_date}}

\* the last request asked for the availability of a month 1..12 of a year
\* of the calendar
AskedForMonth ==
    /\ response.op = "get_availability"
    /\ Has(response.args, "year") /\ Has(response.args, "month")
    /\ response.args.month \in 1..12
    /\ response.args.year \in 1..9999

\* C18: for every year and every month 1..12 the answer carries
\* unavailable_dates, and it is exactly the set of the dates inside the month
\* that are a night (checkin <= d < checkout) of a confirmed booking.
C18_ExactConfirmedNights ==
    AskedForMonth
        => /\ response.status = 200
           /\ response.unavailable_dates
                  = ConfirmedNights(bookings, response.year, response.month)

\* the part of C18 the code keeps: whenever unavailable_dates is answered,
\* it is exactly that set
C18_AnsweredSetExact ==
    (response.op = "get_availability" /\ response.status = 200)
        => response.unavailable_dates
               = ConfirmedNights(bookings, response.year, response.month)

\* a December answer for a confirmed booking that ends in January
C18_CrossMonthAnswered ==
    /\ response.op = "get_availability" /\ response.status = 200
    /\ response.month = 12
    /\ \E i \in 1..Len(bookings) :
           /\ bookings[i].status = "confirmed"
           /\ bookings[i].checkin_date \in DaysOf(2024, 12)
           /\ bookings[i].checkout_date > Ordinal(2025, 1, 1)

\* the statuses C19 names
NonBlockingStatuses ==
    {"pending", "rejected", "cancelled", "completed", "deleted"}

\* the table without the bookings of a non-blocking status
WithoutNonBlocking(table) ==
    SelectSeq(table, LAMBDA b : b.status \notin NonBlockingStatuses)

\* C19: bookings whose status is pending, rejected, cancelled, completed or
\* deleted contribute nothing to an availability answer: the answer is the
\* one the table without them gives, and a night of such a booking is listed
\* only when it is also a night of a booking of another status.
C19_NonBlockingContributeNothing ==
    (response.op = "get_availability" /\ response.status = 200)
        => /\ response.unavailable_dates
                  = UnavailableDates(WithoutNonBlocking(bookings),
                                     response.year, response.month)
           /\ \A i \in 1..Len(bookings) :
                  bookings[i].status \in NonBlockingStatuses
                      => \A d \in NightsIn(bookings[i], response.year,
                                           response.month) :
                             IsoFormat(d) \in response.unavailable_dates
                                 => \E j \in 1..Len(bookings) :
                                        /\ bookings[j].status
                                               \notin NonBlockingStatuses
                                        /\ d \in NightsIn(bookings[j],
                                                          response.year,
                                                          response.month)

\* an answer for December 2024 while a rejected or soft-deleted booking has
\* nights in that month, none of them listed
C19_Witness ==
    /\ response.op = "get_availability" /\ response.status = 200
    /\ response.year = 2024 /\ response.month = 12
    /\ \E i \in 1..Len(bookings) :
           /\ bookings[i].status \in {"rejected", "deleted"}
           /\ NightsIn(bookings[i], 2024, 12) # {}
           /\ \A d \in NightsIn(bookings[i], 2024, 12) :
                  IsoFormat(d) \notin response.unavailable_dates

(***************************************************************************)
(* Claim on the shape of a calculation (SpecCalc).                         *)
(***************************************************************************)
\* the sum of the first k rates of the entries
RECURSIVE SumOfRates(_, _)
SumOfRates(nightly_rates, k) ==
    IF k = 0 THEN 0
    ELSE SumOfRates(nightly_rates, k - 1) + nightly_rates[k].rate

\* C20: a successful calculate_rate result has as many nightly_rates entries
\* as its nights, which is the number of days from check-in to check-out;
\* the entries are the consecutive dates from check-in to the day before
\* check-out, in order; total_amount is the sum of the entries' rates.
C20_NightsDatesAndTotal ==
    IsCalculation
        => LET checkin_date  == ParseDate(response.request.checkin_date)
               checkout_date == ParseDate(response.request.checkout_date)
           IN  /\ Len(response.nightly_rates) = response.nights
               /\ response.nights = checkout_date - checkin_date
               /\ \A k \in 1..Len(response.nightly_rates) :
                      response.nightly_rates[k].date
                          = IsoFormat(checkin_date + k - 1)
               /\ response.total_amount
                      = SumOfRates(response.nightly_rates,
                                   Len(response.nightly_rates))

\* a result for a stay of several nights priced at a special and at the base
\* rate
C20_Witness ==
    /\ IsCalculation
    /\ response.nights >= 3
    /\ \E k \in 1..Len(response.nightly_rates) :
           response.nightly_rates[k].rate_type = "special"
    /\ \E k \in 1..Len(response.nightly_rates) :
           response.nightly_rates[k].rate_type = "base"

(***************************************************************************)
(* Claims on the answers of the rate administration (SpecRates,            *)
(* SpecRateChanges).                                                       *)
(***************************************************************************)
\* the create_rate bodies for a special rate that pass every validation
\* before the overlap query
ValidSpecialBodies ==
    {data \in CreateBodies :
        /\ Has(data, "rate_type") /\ Has(data, "guests") /\ Has(data, "amount")
        /\ data.rate_type = "special" /\ data.guests \in {1, 2}
        /\ data.amount > 0
        /\ Has(data, "start_date") /\ Has(data, "end_date")
        /\ IsIsoDate(data.start_date) /\ IsIsoDate(data.end_date)
        /\ ParseDate(data.start_date) <= ParseDate(data.end_date)}

\* some active special rate of the guest count meets the range of the body
MeetsActiveSpecial(table, data) ==
    \E i \in ActiveSpecial(table, data.guests) :
        /\ table[i].start_date <= ParseDate(data.end_date)
        /\ table[i].end_date >= ParseDate(data.start_date)

\* C21: create_rate for a special rate is rejected and stores nothing when
\* an active special rate of the same guest count meets the new range, and
\* is accepted, storing the rate, when none does.
C21_OverlapRejectedElseAccepted ==
    [][\A data \in ValidSpecialBodies :
          (Len(rates) < MaxRates /\ CreateRate(data))
              => IF MeetsActiveSpecial(rates, data)
                 THEN response'.status = 400 /\ rates' = rates
                 ELSE /\ response'.status = 201
                      /\ Len(rates') = Len(rates) + 1]_vars

\* another active base rate exists for the guest count of row rate_id
OtherActiveBase(table, rate_id) ==
    \E j \in 1..Len(table) :
        /\ j # rate_id
        /\ table[j].rate_type = "base"
        /\ table[j].guests = table[rate_id].guests
        /\ table[j].is_active

\* C22: delete_rate on a base rate is rejected and leaves every rate as it
\* was when no other active base rate exists for its guest count; when one
\* exists it succeeds and changes nothing but the target's is_active, which
\* becomes false.
C22_LastBaseRateKept ==
    [][\A rate_id \in 1..Len(rates) :
          (rates[rate_id].rate_type = "base" /\ DeleteRate(rate_id))
              => IF ~OtherActiveBase(rates, rate_id)
                 THEN response'.status = 400 /\ rates' = rates
                 ELSE /\ response'.status = 200
                      /\ Len(rates') = Len(rates)
                      /\ \A j \in 1..Len(rates) :
                             j # rate_id => rates'[j] = rates[j]
                      /\ ~rates'[rate_id].is_active
                      /\ [rates'[rate_id] EXCEPT !.is_active = TRUE]
                             = [rates[rate_id] EXCEPT !.is_active = TRUE]]_vars

\* the last request deleted a base rate while another base rate of the
\* guest count is active
C22_Witness ==
    /\ response.op = "delete_rate" /\ response.status = 200
    /\ rates[response.rate_id].rate_type = "base"
    /\ ~rates[response.rate_id].is_active
    /\ OtherActiveBase(rates, response.rate_id)

\* C23: when update_rate answers with an error, the stored rates are exactly
\* as they were before the request: no assignment the handler made before
\* the error is persisted.
C23_ErrorPersistsNothing ==
    [][(response'.op = "update_rate" /\ response'.status # 200)
           => rates' = rates]_vars

\* update_rate answered 400 after it had assigned a new value to the row
C23_Witness ==
    /\ response.op = "update_rate"
    /\ response.status = 400
    /\ response.assigned

(***************************************************************************)
(* Claim on the notification of a status update (SpecNotify).  Every       *)
(* request replaces response, so the answer in response is the answer to   *)
(* the request that left the bookings table as it is.                      *)
(***************************************************************************)
\* the positions of the handler's steps of one kind
StepsOf(steps, kind) == {k \in 1..Len(steps) : steps[k].step = kind}

\* C24: an admin status update attempts the notification only after it has
\* committed the new status, and when the notification fails the caller
\* still gets the success answer and the booking keeps the new status.
C24_MailFailureNotFatal ==
    response.op = "admin_update_status"
        => \A k \in StepsOf(response.steps, "mail") :
               /\ \E j \in StepsOf(response.steps, "commit") :
                      /\ j < k
                      /\ bookings[response.booking_id].status
                             = response.steps[j].status
               /\ response.status = 200

\* a status update whose notification failed
C24_Witness ==
    /\ response.op = "admin_update_status"
    /\ \E k \in StepsOf(response.steps, "mail") :
           response.steps[k].outcome # "sent"
    /\ bookings[response.booking_id].status = "rejected"

(***************************************************************************)
(* Claim on the stored bookings (SpecImport).                              *)
(***************************************************************************)
\* C25: every stored booking has its check-out date strictly after its
\* check-in date and 1 or 2 guests, whichever path stored it.
C25_StoredBookingsWellFormed ==
    \A i \in 1..Len(bookings) :
        /\ bookings[i].checkout_date > bookings[i].checkin_date
        /\ bookings[i].guests \in {1, 2}

\* the same on a database that carries the CHECK constraints
C25_WellFormedWhenMigrated ==
    schema = "run_migrations" => C25_StoredBookingsWellFormed

(***************************************************************************)
(* Claim on soft deletion (SpecBookings).                                  *)
(***************************************************************************)
\* C30: soft deletion is terminal: a booking has deleted_at set if and only
\* if its status is deleted, in every reachable state.
C30_DeletedIsTerminal ==
    \A i \in 1..Len(bookings) :
        bookings[i].deleted_at # "None" <=> bookings[i].status = "deleted"

(***************************************************************************)
(* Claim on wait_for_db (SpecWaitForDb).                                   *)
(***************************************************************************)
\* wait_for_db has returned
Returned == waiter.pc \in {"returned", "initialized", "exited"}

\* what holds of every state of a run of wait_for_db
WaitForDbBounded ==
    /\ waiter.attempts <= 30
    /\ Returned /\ waiter.result
           => /\ waiter.attempts = waiter.retry_count + 1
              /\ waiter.sleeps = waiter.retry_count
    /\ Returned /\ ~waiter.result
           => /\ waiter.attempts = 30
              /\ waiter.retry_count = 30
              /\ waiter.sleeps = 30

\* C28: wait_for_db returns after at most 30 connection attempts: True at
\* the first attempt that succeeds, with no attempt after it, and False after
\* 30 failed attempts; it has slept once after every failed attempt.
C28_WaitForDbTerminates ==
    /\ []WaitForDbBounded
    /\ [][waiter.pc \in {"returned", "initialized", "exited"}
              => waiter'.attempts = waiter.attempts]_vars
    /\ <>Returned

\* wait_for_db has returned False
C28_Witness ==
    /\ waiter.pc = "exited"
    /\ ~waiter.result
    /\ waiter.sleeps = 30

(***************************************************************************)
(* Claim on the OAuth callback (SpecOAuth).                                *)
(***************************************************************************)
\* the code exchanges among the requests sent out
Exchanges(log) == {i \in 1..Len(log) : log[i].to = "token_url"}

\* C29: the callback exchanges the code only when the supplied state is the
\* state the login step stored in the session; a callback answered with 200
\* leaves no stored state; and the same callback sent again in that session
\* is answered "Invalid state parameter" and sends nothing to Keycloak.
C29_StateCheckedAndCleared ==
    /\ [][(response'.op = "auth_callback" /\ sent' # sent)
             => /\ session.oauth_state # 0
                /\ Get(response'.data, "state", 0) = session.oauth_state
                /\ session.oauth_state = session.generated]_vars
    /\ [][(response'.op = "auth_callback" /\ response'.status = 200)
             => session'.oauth_state = 0]_vars
    /\ [][\A exchange, user_info \in NetworkOutcomes :
             (/\ response.op = "auth_callback"
              /\ response.status = 200
              /\ AuthCallback(response.data, exchange, user_info))
                 => /\ response'.status = 400
                    /\ response'.error = "Invalid state parameter"
                    /\ sent' = sent]_vars

\* a callback rejected for its state, whose code was exchanged before under
\* the state it carries, in a session whose state has been cleared
C29_Witness ==
    /\ response.op = "auth_callback"
    /\ response.error = "Invalid state parameter"
    /\ session.oauth_state = 0
    /\ Get(response.data, "state", 0) = session.generated
    /\ \E i \in Exchanges(sent) : sent[i].code = response.data.code

(***************************************************************************)
(* Claims on SecureApiClient (SpecToken, SpecRequest).                     *)
(***************************************************************************)
\* the threads whose call has ended
Ended == {t \in 1..MaxCallers : threads[t].pc \in {"returned", "raised"}}

\* every thread has called get_access_token and has returned a token
AllReturned == \A t \in 1..MaxCallers : threads[t].pc = "returned"

\* one token request was sent and every caller has the same token
OneTokenForAll ==
    /\ Cardinality(TokenRequests(sent)) = 1
    /\ \A t, u \in 1..MaxCallers :
           threads[t].access_token = threads[u].access_token

\* the threads that got their token from the token endpoint
Fetched == {t \in 1..MaxCallers : threads[t].expires_in # 0}

\* C26, as stated: when every thread has called get_access_token at the
\* same moment on a client that had no cached token and every token request
\* was answered, exactly one token request was sent and every caller has
\* returned the same token.
C26_OneRequestPerBurst == (now = 0 /\ AllReturned) => OneTokenForAll

\* C26: a token request is sent only by the thread that holds _token_lock,
\* and only when no token is cached or the cached token is within 60
\* seconds of its expiry; and when every thread has called
\* get_access_token on a client that had no cached token, every token
\* request was answered and every token issued is still more than 60
\* seconds from its expiry, exactly one token request was sent and every
\* caller has returned the same token.
C26_OneRequestWhileFresh ==
    /\ [][\A i \in TokenRequests(sent') \ TokenRequests(sent) :
             /\ client.token_lock = sent'[i].by
             /\ \/ client.access_token = 0
                \/ now >= client.token_expires_at - 60]_vars
    /\ []((AllReturned /\ \A t \in Fetched : now < threads[t].expires_in - 60)
              => OneTokenForAll)

\* every caller has the one token that was fetched, a minute later
C26_Witness ==
    /\ AllReturned
    /\ now > 0
    /\ Fetched # {}
    /\ \A t \in Fetched : now < threads[t].expires_in - 60
    /\ OneTokenForAll

\* C27, as stated: a call that has ended has sent the target request at most
\* twice, and twice exactly when the first response was 401.
C27_ResendIffFirst401 ==
    \A t \in Ended :
        /\ threads[t].sends <= 2
        /\ threads[t].sends = 2 <=> threads[t].first = 401

\* C27: a call sends the target request at most twice.  After a first
\* response of 401, and only then, it clears the cached token and asks for a
\* token again; when it gets one, a token issued after the clearing, it
\* sends the request once more and returns that response whatever its
\* status, and when the token request fails it raises without sending again.
C27_AtMostTwoSends ==
    /\ [](\A t \in 1..MaxCallers :
              /\ Cardinality(TargetRequests(sent, t)) = threads[t].sends
              /\ threads[t].sends <= 2
              /\ \A i, j \in TargetRequests(sent, t) :
                     i < j => sent[i].access_token < sent[j].access_token)
    /\ [](\A t \in Ended :
              /\ threads[t].first # 401 => threads[t].sends <= 1
              /\ threads[t].first = 401 =>
                     \/ threads[t].sends = 2
                     \/ /\ threads[t].sends = 1
                        /\ threads[t].pc = "raised"
                        /\ threads[t].site = "send2")
    /\ [][(client.access_token # 0 /\ client'.access_token = 0)
             => \E t \in 1..MaxCallers :
                    /\ threads[t].pc = "clear"
                    /\ threads[t].first = 401
                    /\ threads[t].sends = 1]_vars
    /\ [][\A t \in 1..MaxCallers, reply \in TargetReplies \ {0} :
             (threads[t].pc = "send2" /\ Send(t, reply))
                 => /\ threads'[t].pc = "returned"
                    /\ threads'[t].status = reply
                    /\ threads'[t].sends = 2]_vars

\* one call has returned the 401 of its second request, and another has
\* raised after a 401 because no new token came
C27_Witness ==
    /\ \E t \in 1..MaxCallers :
           /\ threads[t].pc = "returned"
           /\ threads[t].sends = 2
           /\ threads[t].first = 401
           /\ threads[t].status = 401
    /\ \E t \in 1..MaxCallers :
           /\ threads[t].pc = "raised"
           /\ threads[t].sends = 1
           /\ threads[t].first = 401
=============================================================================
